---- MODULE Spec2Model ----
(***************************************************************************)
(* The order fill / cancel state machine of the Exchange contract          *)
(* (MixinExchangeCore): the ledger of filled and cancelled amounts, the    *)
(* maker epochs, the executed meta-transactions, and the four external     *)
(* entry points fillOrder, cancelOrder, cancelOrdersUpTo and               *)
(* executeTransaction.  Every invocation is one atomic step: it either     *)
(* commits or reverts as a whole (the EVM's transaction semantics).        *)
(***************************************************************************)
EXTENDS Integers, Sequences, FiniteSets, TLC

(***************************************************************************)
(* Bounds of the model.                                                    *)
(***************************************************************************)
\* Width in bits of the unsigned integer type standing for uint256.
Width == 29
\* block.timestamp ranges over 1..MaxTime.
MaxTime == 2
\* Number of invocations in one behaviour.
MaxCalls == 3
\* Number of props changes and row refetches of the Wallet in one behaviour.
MaxWalletCalls == 2

MAX_UINT == 2^Width - 1

\* Result of a checked operation that hit a failing assert/require.
REVERT == 0 - 1

(***************************************************************************)
(* Addresses.                                                              *)
(***************************************************************************)
ZERO == "0x0"
\* "M" makes orders, "T" takes them, "R" relays.
Users == {"M", "T", "R"}
EXCHANGE == "exchange"

(***************************************************************************)
(* SafeMath: checked arithmetic over the unsigned type.                    *)
(***************************************************************************)
safeMul(a, b) ==
    IF a = REVERT \/ b = REVERT THEN REVERT
    ELSE IF a = 0 THEN 0
    ELSE IF b > MAX_UINT \div a THEN REVERT
    ELSE a * b

safeDiv(a, b) ==
    IF a = REVERT \/ b = REVERT THEN REVERT
    ELSE IF b = 0 THEN REVERT
    ELSE a \div b

safeSub(a, b) ==
    IF a = REVERT \/ b = REVERT THEN REVERT
    ELSE IF b > a THEN REVERT
    ELSE a - b

safeAdd(a, b) ==
    IF a = REVERT \/ b = REVERT THEN REVERT
    ELSE IF a + b > MAX_UINT THEN REVERT
    ELSE a + b

min256(a, b) ==
    IF a = REVERT \/ b = REVERT THEN REVERT
    ELSE IF a < b THEN a ELSE b

\* (a * b) % n without an intermediate wider than the operands (MULMOD: the
\* product is taken at full precision).
RECURSIVE mulmodAcc(_, _, _)
mulmodAcc(a, b, n) ==
    IF b = 0 THEN 0
    ELSE LET rest == mulmodAcc((2 * a) % n, b \div 2, n)
         IN  IF b % 2 = 1 THEN (a + rest) % n ELSE rest

\* The file is compiled with the experimental "v0.5.0" pragma, under which
\* mulmod asserts a non-zero modulus.
mulmod(a, b, n) ==
    IF n = 0 THEN REVERT ELSE mulmodAcc(a % n, b, n)

\* Variant: the partial amount is rounded up instead of truncated.
getPartialAmountRoundingUp(numerator, denominator, target) ==
    safeDiv(safeAdd(safeMul(numerator, target), safeSub(denominator, 1)),
            denominator)

\* LibPartialAmount: floor(numerator * target / denominator), checked.
getPartialAmount(numerator, denominator, target) ==
    safeDiv(safeMul(numerator, target), denominator)

\* isRoundingError: whether the truncation in getPartialAmount loses more
\* than 0.1%.  reverted is TRUE when one of the checked operations fails.
isRoundingErrorNever(numerator, denominator, target) ==
    [reverted |-> FALSE, isError |-> FALSE]

isRoundingErrorFromThreshold(numerator, denominator, target) ==
    LET remainder == mulmod(target, numerator, denominator)
        errPercentageTimes1000000 ==
            safeDiv(safeMul(remainder, 1000000), safeMul(numerator, target))
    IN  IF remainder = 0
        THEN [reverted |-> FALSE, isError |-> FALSE]
        ELSE IF errPercentageTimes1000000 = REVERT
        THEN [reverted |-> TRUE, isError |-> FALSE]
        ELSE [reverted |-> FALSE, isError |-> errPercentageTimes1000000 >= 1000]

isRoundingError(numerator, denominator, target) ==
    LET remainder == mulmod(target, numerator, denominator)
        errPercentageTimes1000000 ==
            safeDiv(safeMul(remainder, 1000000), safeMul(numerator, target))
    IN  IF remainder = 0
        THEN [reverted |-> FALSE, isError |-> FALSE]
        ELSE IF errPercentageTimes1000000 = REVERT
        THEN [reverted |-> TRUE, isError |-> FALSE]
        ELSE [reverted |-> FALSE, isError |-> errPercentageTimes1000000 > 1000]

(***************************************************************************)
(* Orders, hashes and signatures.                                          *)
(***************************************************************************)
\* The order of the end-to-end examples: 200 maker tokens for 100 taker tokens.
OrderA ==
    [senderAddress |-> ZERO, makerAddress |-> "M", takerAddress |-> ZERO,
     makerTokenAddress |-> "mkrToken", takerTokenAddress |-> "tkrToken",
     feeRecipientAddress |-> "F",
     makerTokenAmount |-> 200, takerTokenAmount |-> 100,
     makerFeeAmount |-> 10, takerFeeAmount |-> 4,
     expirationTimeSeconds |-> 2, salt |-> 1]

\* 3 for 2: a fill of 1 truncates 1.5 to 1.
OrderB == [OrderA EXCEPT !.makerTokenAmount = 3, !.takerTokenAmount = 2, !.salt = 0]
\* Degenerate amounts.
OrderZM == [OrderA EXCEPT !.makerTokenAmount = 0]
OrderZT == [OrderA EXCEPT !.takerTokenAmount = 0]
\* Restricted to the relayer "R" as sender and to "T" as taker.
OrderR == [OrderA EXCEPT !.senderAddress = "R", !.takerAddress = "T",
                         !.makerTokenAmount = 2, !.takerTokenAmount = 2]
\* Expires at the first timestamp.
OrderE == [OrderA EXCEPT !.expirationTimeSeconds = 1]
\* Made by "T", never expiring within the model's time.
OrderT == [OrderA EXCEPT !.makerAddress = "T", !.makerTokenAmount = 2,
                         !.takerTokenAmount = 2, !.expirationTimeSeconds = 9,
                         !.salt = 0]

Orders == {OrderA, OrderB, OrderZM, OrderZT, OrderR, OrderE, OrderT}

\* LibOrder.getOrderHash: the digest of the venue and of every field, in the
\* declared order.  The digest is collision free, so the serialised tuple
\* stands for it.
getOrderHash(order) ==
    <<EXCHANGE, order.senderAddress, order.makerAddress, order.takerAddress,
      order.makerTokenAddress, order.takerTokenAddress,
      order.feeRecipientAddress, order.makerTokenAmount,
      order.takerTokenAmount, order.makerFeeAmount, order.takerFeeAmount,
      order.expirationTimeSeconds, order.salt>>

\* A signature is what recovery makes of it: the address it recovers to and
\* the digest it was made over.
Sign(signer, hash) == [signer |-> signer, hash |-> hash]

\* MSignatureValidator.isValidSignature(hash, signer, signature).
isValidSignature(hash, signer, signature) ==
    signature.signer = signer /\ signature.hash = hash

(***************************************************************************)
(* Meta-transaction payloads (calldata) and LibExchangeDecoder.            *)
(***************************************************************************)
\* Calldata of a fillOrder call: selector, order, fill amount, signature.
FillPayload(order, takerTokenFillAmount, signature) ==
    [selector |-> "fillOrder", length |-> 549, order |-> order,
     takerTokenFillAmount |-> takerTokenFillAmount, signature |-> signature]

\* The same calldata cut after the twelve order words (4 + 384 bytes) and
\* after the signature offset (4 + 384 + 32 + 32 bytes).  Cuts inside the
\* order words are not modelled.
PayloadCutAfterOrder(order) ==
    [selector |-> "fillOrder", length |-> 388, order |-> order,
     takerTokenFillAmount |-> 0, signature |-> [signer |-> ZERO, hash |-> <<>>]]
PayloadCutAfterOffset(order, takerTokenFillAmount) ==
    [selector |-> "fillOrder", length |-> 452, order |-> order,
     takerTokenFillAmount |-> takerTokenFillAmount,
     signature |-> [signer |-> ZERO, hash |-> <<>>]]

\* Calldata of another method of the exchange, and calldata of four bytes.
OtherPayload ==
    [selector |-> "cancelOrder", length |-> 420, order |-> OrderA,
     takerTokenFillAmount |-> 1, signature |-> Sign("M", getOrderHash(OrderA))]
ShortPayload == [OtherPayload EXCEPT !.length = 4]

\* get4(b, index): reads a word, so the array must hold index + 32 bytes.
get4(b, index) ==
    IF ~(b.length >= index + 32)
    THEN [reverted |-> TRUE, result |-> ""]
    ELSE [reverted |-> FALSE, result |-> b.selector]

getFunctionSelector(data) == get4(data, 0)

\* What the memory that follows the bytes of data holds, read as a fill
\* amount and as a signature.
NoSignature == [signer |-> ZERO, hash |-> <<>>]
ZeroMemory == [takerTokenFillAmount |-> 0, signature |-> NoSignature]

\* The words are read at fixed offsets from the start of data (the amount
\* at 4 + 384, the signature length at 4 + 448, then the 65 signature
\* bytes) with no comparison against data.length: a word that lies past
\* the end of data is read from the memory that follows it.
getFillOrderArgs(data, memoryAfterData) ==
    [order |-> data.order,
     takerTokenFillAmount |->
         IF data.length >= 4 + 384 + 32 THEN data.takerTokenFillAmount
         ELSE memoryAfterData.takerTokenFillAmount,
     signature |->
         IF data.length >= 4 + 448 + 32 + 65 THEN data.signature
         ELSE memoryAfterData.signature]


(***************************************************************************)
(* State.                                                                  *)
(***************************************************************************)
VARIABLES
    transactions,   \* set of executed transaction hashes (mapping to true)
    filled,         \* orderHash -> amount of taker token filled
    cancelled,      \* orderHash -> amount of taker token cancelled
    makerEpoch,     \* maker -> lowest salt an order can have to be fillable
    now,            \* block.timestamp
    book,           \* the orders in circulation in this behaviour
    calls,          \* number of invocations so far
    last,           \* the last invocation: arguments, chain before it, outcome
    verified,       \* order hashes whose maker signature a committed call verified
    cancelledUpTo,  \* maker -> salts s of committed cancelOrdersUpTo(s) calls
    rejected,       \* transaction hashes submitted with a signature not the signer's
    delivered,      \* orderHash -> amounts settled so far, maker side and taker side
    wallet          \* the Wallet component: props, state, pending fetches

vars == <<transactions, filled, cancelled, makerEpoch, now, book, calls, last,
          verified, cancelledUpTo, rejected, delivered, wallet>>

\* What an invocation reads: the contract's storage and the block's time.
\* The operators below take it as their first argument st.
Chain ==
    [transactions |-> transactions, filled |-> filled,
     cancelled |-> cancelled, makerEpoch |-> makerEpoch, now |-> now]

(***************************************************************************)
(* Events.                                                                 *)
(***************************************************************************)
ExchangeError(errorId, orderHash) ==
    [name |-> "ExchangeError", errorId |-> errorId, orderHash |-> orderHash]

(***************************************************************************)
(* MSettlement.settleOrder: moves the proportional amounts and fees; fails *)
(* as a whole when a transfer cannot complete.                             *)
(***************************************************************************)
settleOrder(order, takerAddress, takerTokenFilledAmount, transfersOk) ==
    LET makerTokenFilledAmount ==
            getPartialAmount(takerTokenFilledAmount, order.takerTokenAmount,
                             order.makerTokenAmount)
        makerFeeAmountPaid ==
            getPartialAmount(takerTokenFilledAmount, order.takerTokenAmount,
                             order.makerFeeAmount)
        takerFeeAmountPaid ==
            getPartialAmount(takerTokenFilledAmount, order.takerTokenAmount,
                             order.takerFeeAmount)
    IN  IF \/ makerTokenFilledAmount = REVERT
           \/ makerFeeAmountPaid = REVERT
           \/ takerFeeAmountPaid = REVERT
           \/ ~transfersOk
        THEN [reverted |-> TRUE]
        ELSE [reverted |-> FALSE,
              orderHash |-> getOrderHash(order),
              takerAddress |-> takerAddress,
              takerTokenFilledAmount |-> takerTokenFilledAmount,
              makerTokenFilledAmount |-> makerTokenFilledAmount,
              makerFeeAmountPaid |-> makerFeeAmountPaid,
              takerFeeAmountPaid |-> takerFeeAmountPaid]

(***************************************************************************)
(* The exchange core.  Each operator gives the outcome of one internal     *)
(* call made on the chain state st: status "ok" or "revert", the value     *)
(* returned, the new value of the mapping it writes, the events emitted,   *)
(* the settlements made, and what became of the transfers ("none" when     *)
(* the settlement was not reached).                                        *)
(***************************************************************************)
getUnavailableTakerTokenAmount(st, orderHash) ==
    safeAdd(st.filled[orderHash], st.cancelled[orderHash])

\* Variant: every fill counts as a first reference (the signature is
\* checked on every fill).
IsFirstSeenAlways(st, orderHash) == TRUE

\* The order has no ledger entry yet.
IsFirstSeen(st, orderHash) ==
    st.filled[orderHash] = 0 /\ st.cancelled[orderHash] = 0

\* Variant: the amounts are validated, the signature is not.
IsValidOnFirstSightUnsigned(order, orderHash, signature) ==
    /\ order.makerTokenAmount > 0
    /\ order.takerTokenAmount > 0

\* The three requirements made of an order seen for the first time.
IsValidOnFirstSight(order, orderHash, signature) ==
    /\ order.makerTokenAmount > 0
    /\ order.takerTokenAmount > 0
    /\ isValidSignature(orderHash, order.makerAddress, signature)

IsSenderAllowed(order, msgSender) ==
    order.senderAddress # ZERO => order.senderAddress = msgSender

\* Variant: the order's takerAddress is not looked at.
IsTakerAllowedAlways(order, takerAddress) == TRUE

IsTakerAllowed(order, takerAddress) ==
    order.takerAddress # ZERO => order.takerAddress = takerAddress

\* Variant: the order is still fillable in its expiration second.
IsExpiredStrictlyAfter(st, order) == st.now > order.expirationTimeSeconds

IsExpired(st, order) == st.now >= order.expirationTimeSeconds

\* Variant: the cancelled amount is not counted as unavailable.
RemainingIgnoringCancelled(st, order, orderHash) ==
    safeSub(order.takerTokenAmount, st.filled[orderHash])

RemainingTakerTokenAmount(st, order, orderHash) ==
    safeSub(order.takerTokenAmount, getUnavailableTakerTokenAmount(st, orderHash))

\* Variant: an order whose salt is the one passed to cancelOrdersUpTo
\* stays fillable.
IsCancelledByEpochOffByOne(st, order) ==
    order.salt + 1 < st.makerEpoch[order.makerAddress]

\* The maker has cancelled every order up to a salt above this order's.
IsCancelledByEpoch(st, order) == order.salt < st.makerEpoch[order.makerAddress]

\* Variant: the fill replaces the filled amount instead of adding to it.
FilledAfterOverwrite(st, orderHash, takerTokenFilledAmount) ==
    takerTokenFilledAmount

\* filled[orderHash] after a fill of takerTokenFilledAmount.
FilledAfter(st, orderHash, takerTokenFilledAmount) ==
    safeAdd(st.filled[orderHash], takerTokenFilledAmount)

\* Variant: the whole order is settled, whatever was filled.
SettleFillWholeOrder(order, takerAddress, takerTokenFilledAmount, transfersOk) ==
    settleOrder(order, takerAddress, order.takerTokenAmount, transfersOk)

\* The call that settles a fill.
SettleFill(order, takerAddress, takerTokenFilledAmount, transfersOk) ==
    settleOrder(order, takerAddress, takerTokenFilledAmount, transfersOk)

FillReverted(st, transfers) ==
    [status |-> "revert", ret |-> 0, filled |-> st.filled, verified |-> {},
     events |-> <<>>, settled |-> <<>>, transfers |-> transfers]

\* Variant: a failed settlement ends the fill but keeps the ledger update.
SettlementFailedKeepingFill(st, orderHash, newFilled, transfers) ==
    [status |-> "ok", ret |-> 0,
     filled |-> [st.filled EXCEPT ![orderHash] = newFilled], verified |-> {},
     events |-> <<>>, settled |-> <<>>, transfers |-> transfers]

\* settleOrder is an internal call: when it fails the invocation reverts,
\* the write to filled[orderHash] included.
SettlementFailed(st, orderHash, newFilled, transfers) ==
    FillReverted(st, transfers)

FillSoft(st, errorId, orderHash, checked) ==
    [status |-> "ok", ret |-> 0, filled |-> st.filled, verified |-> checked,
     events |-> <<ExchangeError(errorId, orderHash)>>, settled |-> <<>>,
     transfers |-> "none"]

\* filled[orderHash] = ...: the write of one entry of the mapping.
StoreFilledEverywhere(st, orderHash, newFilled) ==
    [h \in DOMAIN st.filled |-> newFilled]

StoreFilled(st, orderHash, newFilled) ==
    [st.filled EXCEPT ![orderHash] = newFilled]

\* The last two soft checks, in the order of the code: the rounding of the
\* capped amount, then the maker's epoch.
LateSoftErrorEpochFirst(roundingError, cancelledByEpoch) ==
    IF cancelledByEpoch THEN "ORDER_FULLY_FILLED_OR_CANCELLED"
    ELSE IF roundingError THEN "ROUNDING_ERROR_TOO_LARGE"
    ELSE "none"

LateSoftError(roundingError, cancelledByEpoch) ==
    IF roundingError THEN "ROUNDING_ERROR_TOO_LARGE"
    ELSE IF cancelledByEpoch THEN "ORDER_FULLY_FILLED_OR_CANCELLED"
    ELSE "none"

fillOrderInternal(st, msgSender, takerAddress, order, takerTokenFillAmount, signature, transfersOk) ==
    LET orderHash == getOrderHash(order)
        firstSeen == IsFirstSeen(st, orderHash)
        checked == IF firstSeen THEN {orderHash} ELSE {}
        remainingTakerTokenAmount ==
            RemainingTakerTokenAmount(st, order, orderHash)
        takerTokenFilledAmount ==
            min256(takerTokenFillAmount, remainingTakerTokenAmount)
        rounding ==
            isRoundingError(takerTokenFilledAmount, order.takerTokenAmount,
                            order.makerTokenAmount)
        newFilled == FilledAfter(st, orderHash, takerTokenFilledAmount)
        settlement ==
            SettleFill(order, takerAddress, takerTokenFilledAmount, transfersOk)
        lateSoftError ==
            LateSoftError(rounding.isError, IsCancelledByEpoch(st, order))
    IN  IF firstSeen /\ ~IsValidOnFirstSight(order, orderHash, signature)
        THEN FillReverted(st, "none")
        ELSE IF ~IsSenderAllowed(order, msgSender) THEN FillReverted(st, "none")
        ELSE IF ~IsTakerAllowed(order, takerAddress) THEN FillReverted(st, "none")
        ELSE IF ~(takerTokenFillAmount > 0) THEN FillReverted(st, "none")
        ELSE IF IsExpired(st, order)
        THEN FillSoft(st, "ORDER_EXPIRED", orderHash, checked)
        ELSE IF remainingTakerTokenAmount = REVERT THEN FillReverted(st, "none")
        ELSE IF takerTokenFilledAmount = 0
        THEN FillSoft(st, "ORDER_FULLY_FILLED_OR_CANCELLED", orderHash, checked)
        ELSE IF rounding.reverted THEN FillReverted(st, "none")
        ELSE IF lateSoftError # "none"
        THEN FillSoft(st, lateSoftError, orderHash, checked)
        ELSE IF newFilled = REVERT THEN FillReverted(st, "none")
        ELSE IF settlement.reverted
        THEN SettlementFailed(st, orderHash, newFilled,
                              IF transfersOk THEN "none" ELSE "failed")
        ELSE [status |-> "ok",
              ret |-> takerTokenFilledAmount,
              filled |-> StoreFilled(st, orderHash, newFilled),
              verified |-> checked,
              events |-> <<[name |-> "Fill",
                            makerAddress |-> order.makerAddress,
                            takerAddress |-> takerAddress,
                            makerTokenFilledAmount |-> settlement.makerTokenFilledAmount,
                            takerTokenFilledAmount |-> takerTokenFilledAmount,
                            makerFeeAmountPaid |-> settlement.makerFeeAmountPaid,
                            takerFeeAmountPaid |-> settlement.takerFeeAmountPaid,
                            orderHash |-> orderHash]>>,
              settled |-> <<settlement>>,
              transfers |-> "ok"]

\* Variant: any caller may cancel.
IsMakerAnyone(order, makerAddress) == TRUE

\* order.makerAddress == makerAddress
IsMaker(order, makerAddress) == order.makerAddress = makerAddress

\* Variant: the new amount replaces the cancelled total.
CancelledAfterOverwrite(st, orderHash, takerTokenCancelledAmount) ==
    takerTokenCancelledAmount

\* safeAdd(cancelled[orderHash], takerTokenCancelledAmount)
CancelledAfter(st, orderHash, takerTokenCancelledAmount) ==
    safeAdd(st.cancelled[orderHash], takerTokenCancelledAmount)

CancelReverted(st) ==
    [status |-> "revert", ret |-> 0, cancelled |-> st.cancelled,
     events |-> <<>>]

CancelSoft(st, errorId, orderHash) ==
    [status |-> "ok", ret |-> 0, cancelled |-> st.cancelled,
     events |-> <<ExchangeError(errorId, orderHash)>>]

cancelOrderInternal(st, msgSender, makerAddress, order, takerTokenCancelAmount) ==
    LET orderHash == getOrderHash(order)
        remainingTakerTokenAmount ==
            RemainingTakerTokenAmount(st, order, orderHash)
        takerTokenCancelledAmount ==
            min256(takerTokenCancelAmount, remainingTakerTokenAmount)
        newCancelled ==
            CancelledAfter(st, orderHash, takerTokenCancelledAmount)
        makerTokenCancelledAmount ==
            getPartialAmount(takerTokenCancelledAmount, order.takerTokenAmount,
                             order.makerTokenAmount)
    IN  IF ~(order.makerTokenAmount > 0) THEN CancelReverted(st)
        ELSE IF ~(order.takerTokenAmount > 0) THEN CancelReverted(st)
        ELSE IF ~(takerTokenCancelAmount > 0) THEN CancelReverted(st)
        ELSE IF ~IsSenderAllowed(order, msgSender) THEN CancelReverted(st)
        ELSE IF ~IsMaker(order, makerAddress) THEN CancelReverted(st)
        ELSE IF IsExpired(st, order)
        THEN CancelSoft(st, "ORDER_EXPIRED", orderHash)
        ELSE IF remainingTakerTokenAmount = REVERT THEN CancelReverted(st)
        ELSE IF takerTokenCancelledAmount = 0
        THEN CancelSoft(st, "ORDER_FULLY_FILLED_OR_CANCELLED", orderHash)
        ELSE IF newCancelled = REVERT THEN CancelReverted(st)
        ELSE IF makerTokenCancelledAmount = REVERT THEN CancelReverted(st)
        ELSE [status |-> "ok",
              ret |-> takerTokenCancelledAmount,
              cancelled |-> [st.cancelled EXCEPT ![orderHash] = newCancelled],
              events |-> <<[name |-> "Cancel",
                            makerAddress |-> order.makerAddress,
                            makerTokenCancelledAmount |-> makerTokenCancelledAmount,
                            takerTokenCancelledAmount |-> takerTokenCancelledAmount,
                            orderHash |-> orderHash]>>]

\* keccak256(salt, data): collision free, so the pair stands for it.
getTransactionHash(salt, data) == <<salt, data>>

\* Variant: the executed mark is never read.
IsExecutedNever(st, transactionHash) == FALSE

\* transactions[transactionHash]
IsExecuted(st, transactionHash) == transactionHash \in st.transactions

\* Variant: the signature of the transaction is not looked at.
IsSignedBySignerUnchecked(transactionHash, signer, signature) == TRUE

\* isValidSignature(transactionHash, signer, signature)
IsSignedBySigner(transactionHash, signer, signature) ==
    isValidSignature(transactionHash, signer, signature)

ExecReverted(st, transfers) ==
    [status |-> "revert", ret |-> 0, filled |-> st.filled,
     transactions |-> st.transactions, verified |-> {}, events |-> <<>>,
     settled |-> <<>>, transfers |-> transfers]

\* ret is the value the relayed fill returned (executeTransaction itself
\* returns nothing).
\* transactions[transactionHash] = true.
MarkExecutedSkipped(st, transactionHash) == st

MarkExecuted(st, transactionHash) ==
    [st EXCEPT !.transactions = @ \cup {transactionHash}]

executeTransaction(st, msgSender, salt, signer, data, signature, memoryAfterData, transfersOk) ==
    LET transactionHash == getTransactionHash(salt, data)
        marked == MarkExecuted(st, transactionHash)
        selector == getFunctionSelector(data)
        args == getFillOrderArgs(data, memoryAfterData)
        fill == fillOrderInternal(marked, msgSender, signer, args.order,
                                  args.takerTokenFillAmount, args.signature,
                                  transfersOk)
    IN  IF ~(~IsExecuted(st, transactionHash)) THEN ExecReverted(st, "none")
        ELSE IF ~IsSignedBySigner(transactionHash, signer, signature)
        THEN ExecReverted(st, "none")
        ELSE IF selector.reverted THEN ExecReverted(st, "none")
        ELSE IF selector.result = "fillOrder"
        THEN IF fill.status = "revert" THEN ExecReverted(st, fill.transfers)
             ELSE [status |-> "ok", ret |-> fill.ret, filled |-> fill.filled,
                   transactions |-> marked.transactions,
                   verified |-> fill.verified, events |-> fill.events,
                   settled |-> fill.settled, transfers |-> fill.transfers]
        ELSE [status |-> "ok", ret |-> 0, filled |-> st.filled,
              transactions |-> marked.transactions,
              verified |-> {}, events |-> <<>>, settled |-> <<>>,
              transfers |-> "none"]

\* Variant: an epoch equal to the current one is accepted.
IsEpochRaisedOrEqual(st, msgSender, newMakerEpoch) ==
    newMakerEpoch >= st.makerEpoch[msgSender]

\* Variant: any epoch other than the current one is accepted.
IsEpochRaisedOrLowered(st, msgSender, newMakerEpoch) ==
    newMakerEpoch # st.makerEpoch[msgSender]

\* newMakerEpoch > makerEpoch[msg.sender]
IsEpochRaised(st, msgSender, newMakerEpoch) ==
    newMakerEpoch > st.makerEpoch[msgSender]

\* salt + 1 is unchecked uint256 arithmetic: it wraps to 0 at the top.
cancelOrdersUpTo(st, msgSender, salt) ==
    LET newMakerEpoch == (salt + 1) % (MAX_UINT + 1)
    IN  IF ~IsEpochRaised(st, msgSender, newMakerEpoch)
        THEN [status |-> "revert", makerEpoch |-> st.makerEpoch, events |-> <<>>]
        ELSE [status |-> "ok",
              makerEpoch |-> [st.makerEpoch EXCEPT ![msgSender] = newMakerEpoch],
              events |-> <<[name |-> "CancelUpTo", maker |-> msgSender,
                            makerEpoch |-> newMakerEpoch]>>]

(***************************************************************************)
(* Inputs.                                                                 *)
(***************************************************************************)
\* Amounts asked for: nothing, one unit, half and twice the example order.
Amounts == {0, 1, 50, 200}
\* Salts passed to cancelOrdersUpTo, the largest representable one included.
Salts == {0, 1, MAX_UINT}
\* Salts of meta-transactions.
TxSalts == {0}
\* Signatures offered for an order: the maker's, and one by the relayer.
OrderSignatures(order) ==
    {Sign(order.makerAddress, getOrderHash(order)),
     Sign("R", getOrderHash(order))}
\* Payloads relayed: fills of the orders in circulation, and two non-fills.
Payloads ==
    UNION {{FillPayload(o, a, s) : a \in {200}, s \in OrderSignatures(o)} :
               o \in book}
        \cup {OtherPayload, ShortPayload}
Signers == {"T", "M"}
\* The orders in circulation: two at a time.
Books ==
    {{OrderA, OrderB}, {OrderA, OrderT}, {OrderR, OrderE}, {OrderZM, OrderZT}}

(***************************************************************************)
(* The Wallet component.                                                   *)
(***************************************************************************)
UNDEFINED == "undefined"
Range(seq) == {seq[i] : i \in DOMAIN seq}

\* Blockchain.getTokenBalanceAndAllowanceAsync: what the chain holds for an
\* owner and a token; zero for no owner.
getTokenBalanceAndAllowanceAsync(ownerAddressIfExists, tokenAddress) ==
    IF ownerAddressIfExists = UNDEFINED
    THEN [balance |-> 0, allowance |-> 0]
    ELSE [balance |-> (IF ownerAddressIfExists = "u1" THEN 10 ELSE 20)
                         + (IF tokenAddress = "zrx" THEN 1 ELSE 2),
          allowance |-> IF ownerAddressIfExists = "u1" THEN 1 ELSE 2]

\* The props the model passes to the component.  blockchainIsLoaded holds
\* and blockchainErr is NoError throughout, so that render shows the rows.
WalletUserAddresses == {"", "u1", "u2"}
WalletNetworkIds == {1, 42}
\* A Token object: ref tells apart two objects that describe the same
\* token.
Token(address, ref) ==
    [address |-> address,
     symbol |-> IF address = "weth" THEN "WETH" ELSE "ZRX", ref |-> ref]
\* The arrays passed as trackedTokens: three built from one generation of
\* Token objects, and one from later objects for the same tokens.
WalletTrackedTokens ==
    {<<Token("zrx", 1)>>,
     <<Token("zrx", 1), Token("weth", 1)>>,
     <<Token("weth", 1), Token("zrx", 1)>>,
     <<Token("zrx", 2), Token("weth", 2)>>}
\* token => token.address over an array.
TokenAddresses(tokens) == [i \in DOMAIN tokens |-> tokens[i].address]
\* The address of the token the ETH row wraps into (_getEthToken).
EtherTokenAddress == "weth"
WalletProps ==
    [userAddress : WalletUserAddresses, networkId : WalletNetworkIds,
     lastForceTokenStateRefetch : 0..1, trackedTokens : WalletTrackedTokens]
DefaultWalletProps ==
    [userAddress |-> "u1", networkId |-> 1, lastForceTokenStateRefetch |-> 0,
     trackedTokens |-> <<Token("zrx", 1)>>]

\* A TokenStateByAddress object: its keys in insertion order and its values.
ObjectSet(object, key, value) ==
    [keys |-> IF key \in Range(object.keys) THEN object.keys
              ELSE Append(object.keys, key),
     of |-> [k \in DOMAIN object.of \cup {key} |->
                IF k = key THEN value ELSE object.of[k]]]

RECURSIVE ObjectSetEach(_, _, _)
ObjectSetEach(object, keys, value) ==
    IF Len(keys) = 0 THEN object
    ELSE ObjectSetEach(ObjectSet(object, Head(keys), value), Tail(keys), value)

NotLoaded == [balance |-> 0, allowance |-> 0, isLoaded |-> FALSE]

getInitialTrackedTokenStateByAddress(trackedTokens) ==
    ObjectSetEach([keys |-> <<>>, of |-> <<>>], TokenAddresses(trackedTokens),
                  NotLoaded)

\* constructor: objects is the heap of TokenStateByAddress objects, state
\* the one this.state.trackedTokenStateByAddress refers to, fetches the
\* asynchronous calls waiting for an answer of the blockchain, displayed
\* the token rows of the last render, changed whether userAddress or
\* networkId has changed since.  phase is "mounted" while the last render
\* returned its rows and "thrown" while the component is mounted and its
\* last render threw.
WalletConstructor(props) ==
    [phase |-> "constructed", props |-> props,
     objects |-> <<getInitialTrackedTokenStateByAddress(props.trackedTokens)>>,
     state |-> 1, wrappedEtherDirection |-> UNDEFINED, fetches |-> <<>>,
     displayed |-> <<>>, calls |-> 0, changed |-> FALSE]

\* The place of a token in the rows: WETH first, then ZRX, then by
\* address ("weth" sorts before "zrx").
TokenRank(token) ==
    (IF token.symbol # "WETH" THEN 4 ELSE 0)
        + (IF token.symbol # "ZRX" THEN 2 ELSE 0)
        + (IF token.address = "weth" THEN 0 ELSE 1)

RECURSIVE InsertSorted(_, _)
InsertSorted(token, sorted) ==
    IF Len(sorted) = 0 THEN <<token>>
    ELSE IF TokenRank(token) < TokenRank(Head(sorted))
    THEN <<token>> \o sorted
    ELSE <<Head(sorted)>> \o InsertSorted(token, Tail(sorted))

\* trackedTokens.sort(firstBy(...).thenBy(...).thenBy('address')).
RECURSIVE sortTrackedTokens(_)
sortTrackedTokens(tokens) ==
    IF Len(tokens) = 0 THEN <<>>
    ELSE InsertSorted(tokens[Len(tokens)],
                      sortTrackedTokens(SubSeq(tokens, 1, Len(tokens) - 1)))

\* render: this.props.trackedTokens is sorted in place, and the row of
\* each tracked token is read from the state.  For a token the state has
\* no entry for, _renderTokenRow reads the balance of undefined and render
\* throws as a whole, after the sort.
renderTokenRows(w) ==
    LET sorted == sortTrackedTokens(w.props.trackedTokens)
        addresses == Range(TokenAddresses(sorted))
    IN  IF addresses \subseteq DOMAIN w.objects[w.state].of
        THEN [w EXCEPT !.props.trackedTokens = sorted,
                       !.phase = "mounted",
                       !.displayed = [t \in addresses |->
                                         w.objects[w.state].of[t]]]
        ELSE [w EXCEPT !.props.trackedTokens = sorted,
                       !.phase = "thrown",
                       !.displayed = <<>>]

\* What a render leaves behind.  The component has no error boundary, and
\* what follows a render that throws is the version of React's to decide:
\* the component stays mounted and the next setState or props renders
\* again, or the tree is unmounted and componentWillUnmount runs.
Rendered(w) ==
    LET out == renderTokenRows(w)
    IN  IF out.phase = "thrown"
        THEN {out, [out EXCEPT !.phase = "unmounted"]}
        ELSE {out}

\* _fetchBalancesAndAllowancesAsync up to its first await: the object and
\* the user address are read from this.state and this.props, and the first
\* query is sent.  With no token to fetch, it calls setState at once.
fetchBalancesAndAllowancesAsync(w, tokenAddresses) ==
    IF Len(tokenAddresses) = 0 THEN w
    ELSE [w EXCEPT !.fetches =
            Append(@, [op |-> "fetchBalancesAndAllowances",
                       object |-> w.state,
                       userAddressIfExists |->
                           IF w.props.userAddress = "" THEN UNDEFINED
                           ELSE w.props.userAddress,
                       tokenAddresses |-> tokenAddresses])]

\* _refetchTokenStateAsync up to its await.
refetchTokenStateAsync(w, tokenAddress) ==
    [w EXCEPT !.fetches =
        Append(@, [op |-> "refetchTokenState", object |-> 0,
                   userAddressIfExists |->
                       IF w.props.userAddress = "" THEN UNDEFINED
                       ELSE w.props.userAddress,
                   tokenAddresses |-> <<tokenAddress>>])]

(***************************************************************************)
(* Initial state: the ledger of a freshly deployed exchange.               *)
(***************************************************************************)
NoCall == [op |-> "none", status |-> "none"]

Init ==
    /\ transactions = {}
    /\ book \in Books
    /\ filled = [h \in {getOrderHash(o) : o \in book} |-> 0]
    /\ cancelled = [h \in {getOrderHash(o) : o \in book} |-> 0]
    /\ makerEpoch = [a \in Users |-> 0]
    /\ now = 1
    /\ calls = 0
    /\ last = NoCall
    /\ verified = {}
    /\ cancelledUpTo = [a \in Users |-> {}]
    /\ rejected = {}
    /\ delivered = [h \in {getOrderHash(o) : o \in book} |->
                       [maker |-> 0, taker |-> 0]]
    /\ wallet = WalletConstructor(DefaultWalletProps)

(***************************************************************************)
(* Actions: one per external entry point, plus the passing of time.        *)
(***************************************************************************)
\* No invocation is in progress and the previous outcome has been observed.
Idle == last.op = "none"

\* The amounts of the settlements made for orderHash, one side of them.
RECURSIVE SettledOn(_, _, _)
SettledOn(settled, orderHash, side) ==
    IF Len(settled) = 0 THEN 0
    ELSE (IF Head(settled).orderHash = orderHash
          THEN (IF side = "maker" THEN Head(settled).makerTokenFilledAmount
                ELSE Head(settled).takerTokenFilledAmount)
          ELSE 0)
         + SettledOn(Tail(settled), orderHash, side)

\* The account of what settleOrder has moved, after the settlements of a
\* committed invocation.
DeliveredAfter(settled) ==
    [h \in DOMAIN delivered |->
        [maker |-> delivered[h].maker + SettledOn(settled, h, "maker"),
         taker |-> delivered[h].taker + SettledOn(settled, h, "taker")]]

FillOrder(msgSender, order, takerTokenFillAmount, signature, transfersOk) ==
    LET out == fillOrderInternal(Chain, msgSender, msgSender, order,
                                 takerTokenFillAmount, signature, transfersOk)
    IN  /\ Idle
        /\ calls < MaxCalls
        /\ calls' = calls + 1
        /\ filled' = out.filled
        /\ verified' = IF out.status = "ok" THEN verified \cup out.verified
                       ELSE verified
        /\ last' = [op |-> "fillOrder", sender |-> msgSender,
                    taker |-> msgSender, order |-> order,
                    amount |-> takerTokenFillAmount, signature |-> signature,
                    pre |-> Chain, status |-> out.status, ret |-> out.ret,
                    events |-> out.events, settled |-> out.settled,
                    transfers |-> out.transfers]
        /\ delivered' = DeliveredAfter(out.settled)
        /\ UNCHANGED <<transactions, cancelled, makerEpoch, now, book, wallet,
                       cancelledUpTo, rejected>>

CancelOrder(msgSender, order, takerTokenCancelAmount) ==
    LET out == cancelOrderInternal(Chain, msgSender, msgSender, order,
                                   takerTokenCancelAmount)
    IN  /\ Idle
        /\ calls < MaxCalls
        /\ calls' = calls + 1
        /\ cancelled' = out.cancelled
        /\ last' = [op |-> "cancelOrder", sender |-> msgSender,
                    order |-> order, amount |-> takerTokenCancelAmount,
                    pre |-> Chain, status |-> out.status, ret |-> out.ret,
                    events |-> out.events, settled |-> <<>>]
        /\ UNCHANGED <<transactions, filled, makerEpoch, now, book, wallet, verified,
                       cancelledUpTo, rejected, delivered>>

CancelOrdersUpTo(msgSender, salt) ==
    LET out == cancelOrdersUpTo(Chain, msgSender, salt)
    IN  /\ Idle
        /\ calls < MaxCalls
        /\ calls' = calls + 1
        /\ makerEpoch' = out.makerEpoch
        /\ cancelledUpTo' =
               IF out.status = "ok"
               THEN [cancelledUpTo EXCEPT ![msgSender] = @ \cup {salt}]
               ELSE cancelledUpTo
        /\ last' = [op |-> "cancelOrdersUpTo", sender |-> msgSender,
                    salt |-> salt,
                    again |-> salt \in cancelledUpTo[msgSender],
                    pre |-> Chain, status |-> out.status,
                    ret |-> 0, events |-> out.events, settled |-> <<>>]
        /\ UNCHANGED <<transactions, filled, cancelled, now, book, wallet, verified,
                       rejected, delivered>>

ExecuteTransaction(msgSender, salt, signer, data, signature, memoryAfterData, transfersOk) ==
    LET out == executeTransaction(Chain, msgSender, salt, signer, data, signature,
                                  memoryAfterData, transfersOk)
    IN  /\ Idle
        /\ calls < MaxCalls
        /\ calls' = calls + 1
        /\ transactions' = out.transactions
        /\ filled' = out.filled
        /\ verified' = IF out.status = "ok" THEN verified \cup out.verified
                       ELSE verified
        /\ last' = [op |-> "executeTransaction", sender |-> msgSender,
                    salt |-> salt, signer |-> signer, data |-> data,
                    signature |-> signature, memory |-> memoryAfterData,
                    pre |-> Chain,
                    status |-> out.status, ret |-> out.ret,
                    events |-> out.events, settled |-> out.settled,
                    transfers |-> out.transfers]
        /\ rejected' =
               IF signature # Sign(signer, getTransactionHash(salt, data))
               THEN rejected \cup {getTransactionHash(salt, data)}
               ELSE rejected
        /\ delivered' = DeliveredAfter(out.settled)
        /\ UNCHANGED <<cancelled, makerEpoch, now, book, wallet, cancelledUpTo>>

\* A later block: block.timestamp grows.
Tick ==
    /\ Idle
    /\ now < MaxTime
    /\ now' = now + 1
    /\ UNCHANGED <<transactions, filled, cancelled, makerEpoch, book, wallet, calls,
                   last, verified, cancelledUpTo, rejected, delivered>>

\* The caller has received the outcome of the last invocation (its return
\* value or revert, its events); the ledger is as the invocation left it.
Return ==
    /\ ~Idle
    /\ last.status # "pending"
    /\ last' = NoCall
    /\ UNCHANGED <<transactions, filled, cancelled, makerEpoch, now, book, wallet,
                   calls, verified, cancelledUpTo, rejected, delivered>>

Next ==
    \/ \E msgSender \in {"T", "R"}, order \in book, amount \in Amounts,
          transfersOk \in BOOLEAN :
          \E signature \in OrderSignatures(order) :
             FillOrder(msgSender, order, amount, signature, transfersOk)
    \/ \E msgSender \in Users, order \in book, amount \in Amounts :
          CancelOrder(msgSender, order, amount)
    \/ \E msgSender \in {"M", "T"}, salt \in Salts :
          CancelOrdersUpTo(msgSender, salt)
    \/ \E msgSender \in {"R", "T"}, salt \in TxSalts, signer \in Signers,
          data \in Payloads, transfersOk \in BOOLEAN :
          ExecuteTransaction(msgSender, salt, signer, data,
                             Sign(signer, getTransactionHash(salt, data)),
                             ZeroMemory, transfersOk)
    \/ Return
    \/ Tick

Spec == Init /\ [][Next]_vars

(***************************************************************************)
(* The meta-transaction gate under stress: the same exchange, with         *)
(* transactions whose signature is not the signer's, payloads cut short,   *)
(* and whatever the memory after a short payload may hold.                 *)
(***************************************************************************)
MakerSignature(order) == Sign(order.makerAddress, getOrderHash(order))
GateTxSalts == {0}
GateFillAmounts == {1, 50}
GatePayloads ==
    UNION {{FillPayload(o, 200, MakerSignature(o)),
            PayloadCutAfterOrder(o),
            PayloadCutAfterOffset(o, 1)} : o \in book}
        \cup {OtherPayload, ShortPayload}
\* The memory after data: zeros, or the next object in memory, which is
\* the signature argument of executeTransaction; read as an amount it is
\* 0 or more.  Only a payload cut short has it read.
GateMemories(data, signature) ==
    IF data.selector = "fillOrder" /\ data.length < 549
    THEN {[takerTokenFillAmount |-> a, signature |-> s] :
             a \in {0, 1}, s \in {NoSignature, signature}}
    ELSE {ZeroMemory}

GateNext ==
    \/ \E order \in book, amount \in GateFillAmounts :
          FillOrder("T", order, amount, MakerSignature(order), TRUE)
    \/ \E order \in book : CancelOrder(order.makerAddress, order, 1)
    \/ \E salt \in {0} : CancelOrdersUpTo("M", salt)
    \/ \E salt \in GateTxSalts, signer \in Signers, data \in GatePayloads,
          by \in Signers :
          \E memoryAfterData \in
                 GateMemories(data, Sign(by, getTransactionHash(salt, data))) :
             ExecuteTransaction("R", salt, signer, data,
                                Sign(by, getTransactionHash(salt, data)),
                                memoryAfterData, TRUE)
    \/ Return
    \/ Tick

GateSpec == Init /\ [][GateNext]_vars

(***************************************************************************)
(* Relaying with retries: a relayer that sees the outcome of a             *)
(* meta-transaction may submit the very same (salt, signer, data,          *)
(* signature) once more, itself or through another relayer; the outcome   *)
(* of the submission before stays in sight.                                *)
(***************************************************************************)
ResubmitTransaction(msgSender, transfersOk) ==
    /\ last.op = "executeTransaction"
    /\ calls < MaxCalls
    /\ LET out == executeTransaction(Chain, msgSender, last.salt,
                                     last.signer, last.data, last.signature,
                                     last.memory, transfersOk)
       IN  /\ calls' = calls + 1
           /\ transactions' = out.transactions
           /\ filled' = out.filled
           /\ verified' = IF out.status = "ok" THEN verified \cup out.verified
                          ELSE verified
           /\ last' = [op |-> "executeTransaction", sender |-> msgSender,
                       salt |-> last.salt, signer |-> last.signer,
                       data |-> last.data, signature |-> last.signature,
                       memory |-> last.memory,
                       pre |-> Chain,
                       status |-> out.status, ret |-> out.ret,
                       events |-> out.events, settled |-> out.settled,
                       transfers |-> out.transfers,
                       previous |->
                           [status |-> last.status, ret |-> last.ret,
                            transfers |-> last.transfers,
                            replay |->
                                getTransactionHash(last.salt, last.data)
                                    \in last.pre.transactions]]
           /\ rejected' =
                  IF last.signature
                        # Sign(last.signer, getTransactionHash(last.salt, last.data))
                  THEN rejected \cup {getTransactionHash(last.salt, last.data)}
                  ELSE rejected
           /\ delivered' = DeliveredAfter(out.settled)
    /\ UNCHANGED <<cancelled, makerEpoch, now, book, wallet, cancelledUpTo>>

RelayFillAmounts == {1, 200}

RelayNext ==
    \/ \E order \in book, amount \in RelayFillAmounts :
          FillOrder("T", order, amount, MakerSignature(order), TRUE)
    \/ \E salt \in {0} : CancelOrdersUpTo("M", salt)
    \/ \E msgSender \in {"R", "T"}, salt \in TxSalts, signer \in Signers,
          data \in Payloads, transfersOk \in BOOLEAN :
          ExecuteTransaction(msgSender, salt, signer, data,
                             Sign(signer, getTransactionHash(salt, data)),
                             ZeroMemory, transfersOk)
    \/ \E msgSender \in {"R", "T"}, transfersOk \in BOOLEAN :
          ResubmitTransaction(msgSender, transfersOk)
    \/ Return
    \/ Tick

RelaySpec == Init /\ [][RelayNext]_vars

(***************************************************************************)
(* Two signers, one instruction: after a meta-transaction, another signer  *)
(* submits the same salt and data under its own signature.  The earlier    *)
(* submission stays in sight.                                              *)
(***************************************************************************)
SubmitSameTransaction(msgSender, signer) ==
    /\ last.op = "executeTransaction"
    /\ "previous" \notin DOMAIN last
    /\ signer # last.signer
    /\ calls < MaxCalls
    /\ LET transactionHash == getTransactionHash(last.salt, last.data)
           signature == Sign(signer, transactionHash)
           out == executeTransaction(Chain, msgSender, last.salt, signer,
                                     last.data, signature, last.memory, TRUE)
       IN  /\ calls' = calls + 1
           /\ transactions' = out.transactions
           /\ filled' = out.filled
           /\ verified' = IF out.status = "ok" THEN verified \cup out.verified
                          ELSE verified
           /\ last' = [op |-> "executeTransaction", sender |-> msgSender,
                       salt |-> last.salt, signer |-> signer,
                       data |-> last.data, signature |-> signature,
                       memory |-> last.memory,
                       pre |-> Chain,
                       status |-> out.status, ret |-> out.ret,
                       events |-> out.events, settled |-> out.settled,
                       transfers |-> out.transfers,
                       previous |->
                           [signer |-> last.signer, status |-> last.status,
                            ret |-> last.ret,
                            replay |->
                                transactionHash \in last.pre.transactions]]
           /\ delivered' = DeliveredAfter(out.settled)
           /\ UNCHANGED rejected
    /\ UNCHANGED <<cancelled, makerEpoch, now, book, wallet, cancelledUpTo>>

SignersNext ==
    \/ \E salt \in TxSalts, signer \in Signers, data \in Payloads,
          transfersOk \in BOOLEAN :
          ExecuteTransaction("R", salt, signer, data,
                             Sign(signer, getTransactionHash(salt, data)),
                             ZeroMemory, transfersOk)
    \/ \E signer \in Signers : SubmitSameTransaction("R", signer)
    \/ \E order \in book :
          FillOrder("T", order, 1, MakerSignature(order), TRUE)
    \/ Return
    \/ Tick

SignersSpec == Init /\ [][SignersNext]_vars

(***************************************************************************)
(* Re-entrancy: settleOrder hands control to token contracts, and a token  *)
(* may call back into the exchange before the outer fill has finished.     *)
(* The nested call is a fillOrder or a cancelOrder of the same order; it   *)
(* runs on the storage as the outer fill left it when it called            *)
(* settleOrder.                                                            *)
(***************************************************************************)
\* The storage at the call of settleOrder: the write of filled[orderHash]
\* has been made.
ChainAtSettlementBeforeWrite(st, outerFilled) == st

ChainAtSettlement(st, outerFilled) == [st EXCEPT !.filled = outerFilled]

\* The nested calls tried: who calls, what, and for how much.
NestedCalls ==
    {[op |-> op, sender |-> sender, amount |-> amount] :
        op \in {"fillOrder", "cancelOrder"}, sender \in {"T", "M"},
        amount \in {1, 50, 200}}

\* What a nested fillOrder that returned inner leaves and reports.
nestedFill(st, inner) ==
    [status |-> inner.status, ret |-> inner.ret,
     filled |-> inner.filled, cancelled |-> st.cancelled,
     events |-> inner.events, settled |-> inner.settled]

\* What a nested cancelOrder that returned inner leaves and reports.
nestedCancel(st, inner) ==
    [status |-> inner.status, ret |-> inner.ret,
     filled |-> st.filled, cancelled |-> inner.cancelled,
     events |-> inner.events, settled |-> <<>>]

\* The nested invocation on the storage st.
nestedCall(st, order, nested) ==
    IF nested.op = "fillOrder"
    THEN nestedFill(st, fillOrderInternal(st, nested.sender, nested.sender,
                                          order, nested.amount,
                                          Sign(order.makerAddress,
                                               getOrderHash(order)),
                                          TRUE))
    ELSE nestedCancel(st, cancelOrderInternal(st, nested.sender, nested.sender,
                                              order, nested.amount))

\* The outcome of the outer fill, which returned outer, and of the nested
\* call, which returned inner.
reenteredOutcome(st, outer, inner, bubbles) ==
    LET settling == outer.status = "ok" /\ outer.ret > 0
    IN  IF ~settling
        THEN [status |-> outer.status, ret |-> outer.ret, entered |-> FALSE,
              nestedStatus |-> "none", nestedRet |-> 0,
              filled |-> outer.filled, cancelled |-> st.cancelled,
              verified |-> outer.verified, settled |-> outer.settled]
        ELSE IF inner.status = "revert"
        THEN IF bubbles
             THEN [status |-> "revert", ret |-> 0, entered |-> TRUE,
                   nestedStatus |-> "revert", nestedRet |-> 0,
                   filled |-> st.filled, cancelled |-> st.cancelled,
                   verified |-> {}, settled |-> <<>>]
             ELSE [status |-> "ok", ret |-> outer.ret, entered |-> TRUE,
                   nestedStatus |-> "revert", nestedRet |-> 0,
                   filled |-> outer.filled, cancelled |-> st.cancelled,
                   verified |-> outer.verified, settled |-> outer.settled]
        ELSE [status |-> "ok", ret |-> outer.ret, entered |-> TRUE,
              nestedStatus |-> "ok", nestedRet |-> inner.ret,
              filled |-> inner.filled, cancelled |-> inner.cancelled,
              verified |-> outer.verified,
              settled |-> outer.settled \o inner.settled]

\* The call of settleOrder by the outer fill that returned outer.
settleReentered(st, order, outer, nested, bubbles) ==
    reenteredOutcome(st, outer,
                     nestedCall(ChainAtSettlement(st, outer.filled), order,
                                nested),
                     bubbles)

\* fillOrder whose settlement re-enters once.  A nested call that reverts
\* either takes the settlement, and with it the outer fill, down with it
\* (bubbles) or is swallowed by the token.
fillOrderReentered(st, msgSender, order, takerTokenFillAmount, signature, nested, bubbles) ==
    settleReentered(st, order,
                    fillOrderInternal(st, msgSender, msgSender, order,
                                      takerTokenFillAmount, signature, TRUE),
                    nested, bubbles)

FillOrderReentered(msgSender, order, takerTokenFillAmount, signature, nested, bubbles) ==
    LET out == fillOrderReentered(Chain, msgSender, order, takerTokenFillAmount,
                                  signature, nested, bubbles)
    IN  /\ Idle
        /\ calls < MaxCalls
        /\ calls' = calls + 1
        /\ filled' = out.filled
        /\ cancelled' = out.cancelled
        /\ verified' = IF out.status = "ok" THEN verified \cup out.verified
                       ELSE verified
        /\ last' = [op |-> "fillOrderReentered", sender |-> msgSender,
                    order |-> order, amount |-> takerTokenFillAmount,
                    signature |-> signature, nested |-> nested,
                    pre |-> Chain, status |-> out.status, ret |-> out.ret,
                    entered |-> out.entered,
                    nestedStatus |-> out.nestedStatus,
                    nestedRet |-> out.nestedRet]
        /\ delivered' = DeliveredAfter(out.settled)
        /\ UNCHANGED <<transactions, makerEpoch, now, book, wallet, cancelledUpTo,
                       rejected>>

ReentrantNext ==
    \/ \E order \in book, amount \in {1, 50, 200}, nested \in NestedCalls,
          bubbles \in BOOLEAN :
          FillOrderReentered("T", order, amount, MakerSignature(order), nested,
                             bubbles)
    \/ \E order \in book, amount \in {1, 50} :
          FillOrder("T", order, amount, MakerSignature(order), TRUE)
    \/ \E order \in book : CancelOrder(order.makerAddress, order, 1)
    \/ Return
    \/ Tick

ReentrantSpec == Init /\ [][ReentrantNext]_vars

(***************************************************************************)
(* Partial fills of an order whose ratio truncates.                        *)
(***************************************************************************)
\* 1001 maker tokens for 100 taker tokens, never expiring within the model's
\* time: a fill of n < 100 is owed 10.01 * n maker tokens and is paid the
\* whole part, an error below 0.1% that the rounding guard lets through.
OrderD == [OrderA EXCEPT !.makerTokenAmount = 1001, !.expirationTimeSeconds = 9,
                         !.salt = 5]

DeliveryFillAmounts == {1, 33, 50, 99, 100}
DeliveryCancelAmounts == {1, 50}

\* The ledger of a freshly deployed exchange, with OrderD and OrderA in
\* circulation.
DeliveryInit ==
    /\ transactions = {}
    /\ book = {OrderD, OrderA}
    /\ filled = [h \in {getOrderHash(o) : o \in book} |-> 0]
    /\ cancelled = [h \in {getOrderHash(o) : o \in book} |-> 0]
    /\ makerEpoch = [a \in Users |-> 0]
    /\ now = 1
    /\ calls = 0
    /\ last = NoCall
    /\ verified = {}
    /\ cancelledUpTo = [a \in Users |-> {}]
    /\ rejected = {}
    /\ delivered = [h \in {getOrderHash(o) : o \in book} |->
                       [maker |-> 0, taker |-> 0]]
    /\ wallet = WalletConstructor(DefaultWalletProps)

DeliveryNext ==
    \/ \E order \in book, amount \in DeliveryFillAmounts,
          transfersOk \in BOOLEAN :
          FillOrder("T", order, amount, MakerSignature(order), transfersOk)
    \/ \E order \in book, amount \in DeliveryCancelAmounts :
          CancelOrder(order.makerAddress, order, amount)
    \/ Return
    \/ Tick

DeliverySpec == DeliveryInit /\ [][DeliveryNext]_vars

(***************************************************************************)
(* The Wallet component: lifecycle methods and the answers to its fetches. *)
(***************************************************************************)
ExchangeVars ==
    <<transactions, filled, cancelled, makerEpoch, now, book, calls, last,
      verified, cancelledUpTo, rejected, delivered>>


\* componentWillMount, followed by the first render.
ComponentWillMount ==
    /\ wallet.phase = "constructed"
    /\ wallet' \in
          Rendered(
              [fetchBalancesAndAllowancesAsync(
                   wallet, wallet.objects[wallet.state].keys)
               EXCEPT !.phase = "mounted"])
    /\ UNCHANGED ExchangeVars

ComponentWillUnmount ==
    /\ wallet.phase \in {"mounted", "thrown"}
    /\ wallet' = [wallet EXCEPT !.phase = "unmounted"]
    /\ UNCHANGED ExchangeVars

\* _.isEqual of two arrays of Token objects: they hold the same values,
\* whichever objects hold them.
isEqual(tokens, others) ==
    /\ Len(tokens) = Len(others)
    /\ \A i \in DOMAIN tokens :
          /\ tokens[i].address = others[i].address
          /\ tokens[i].symbol = others[i].symbol

\* componentWillReceiveProps(nextProps): this.props is still the previous
\* props while it runs; the component then takes nextProps and renders.
ComponentWillReceiveProps(nextProps) ==
    LET userChanges ==
            \/ nextProps.userAddress # wallet.props.userAddress
            \/ nextProps.networkId # wallet.props.networkId
        refetches ==
            \/ nextProps.userAddress # wallet.props.userAddress
            \/ nextProps.networkId # wallet.props.networkId
            \/ nextProps.lastForceTokenStateRefetch
                  # wallet.props.lastForceTokenStateRefetch
        afterRefetch ==
            IF refetches
            THEN fetchBalancesAndAllowancesAsync(
                     wallet, wallet.objects[wallet.state].keys)
            ELSE wallet
        newTokens ==
            SelectSeq(nextProps.trackedTokens,
                      LAMBDA t : t \notin Range(wallet.props.trackedTokens))
        newTokenAddresses == TokenAddresses(newTokens)
        withPlaceholders ==
            [afterRefetch EXCEPT !.objects[afterRefetch.state] =
                ObjectSetEach(@, newTokenAddresses, NotLoaded)]
        afterTracked ==
            IF ~isEqual(nextProps.trackedTokens, wallet.props.trackedTokens)
            THEN fetchBalancesAndAllowancesAsync(withPlaceholders,
                                                 newTokenAddresses)
            ELSE afterRefetch
    IN  /\ wallet.phase \in {"mounted", "thrown"}
        /\ wallet.calls < MaxWalletCalls
        /\ wallet' \in Rendered([afterTracked EXCEPT
                                    !.props = nextProps,
                                    !.calls = @ + 1,
                                    !.changed = @ \/ userChanges])
        /\ UNCHANGED ExchangeVars

\* A child asks for the state of its token to be fetched again: the row
\* of a tracked token, or the ETH row for the ether token, tracked or not.
RefetchTokenState(tokenAddress) ==
    /\ wallet.phase \in {"mounted", "thrown"}
    /\ wallet.calls < MaxWalletCalls
    /\ \/ tokenAddress \in Range(TokenAddresses(wallet.props.trackedTokens))
       \/ tokenAddress = EtherTokenAddress
    /\ wallet' = [refetchTokenStateAsync(wallet, tokenAddress)
                  EXCEPT !.calls = @ + 1]
    /\ UNCHANGED ExchangeVars

\* _openWrappedEtherActionRow, the click on the wrap button of the ETH row
\* (Side.Deposit) or on the unwrap button of the WETH row (Side.Receive): the
\* setState is followed by a render, which shows the state object as the
\* pending calls have written it so far.
OpenWrappedEtherActionRow(wrappedEtherDirection) ==
    /\ wallet.phase \in {"mounted", "thrown"}
    /\ wallet' \in Rendered([wallet EXCEPT !.wrappedEtherDirection =
                                               wrappedEtherDirection])
    /\ UNCHANGED ExchangeVars

\* _closeWrappedEtherActionRow, the click on a cancel button or the end of
\* a conversion.
CloseWrappedEtherActionRow ==
    /\ wallet.phase \in {"mounted", "thrown"}
    /\ wallet' \in Rendered([wallet EXCEPT !.wrappedEtherDirection =
                                               UNDEFINED])
    /\ UNCHANGED ExchangeVars

\* The blockchain answers the query the i-th pending call waits for, and
\* the call runs to its next await or to its end: its setState is followed
\* by a render while the component is mounted.
ResolveFetch(i) ==
    LET fetch == wallet.fetches[i]
        tokenAddress == Head(fetch.tokenAddresses)
        answer == getTokenBalanceAndAllowanceAsync(fetch.userAddressIfExists,
                                                   tokenAddress)
        tokenState == [balance |-> answer.balance,
                       allowance |-> answer.allowance, isLoaded |-> TRUE]
        rest == Tail(fetch.tokenAddresses)
        others == SubSeq(wallet.fetches, 1, i - 1)
                      \o SubSeq(wallet.fetches, i + 1, Len(wallet.fetches))
        written == [wallet EXCEPT !.objects[fetch.object] =
                       ObjectSet(@, tokenAddress, tokenState)]
        ended == [written EXCEPT !.fetches = others]
        spread == [wallet EXCEPT
                      !.fetches = others,
                      !.objects = Append(@, ObjectSet(wallet.objects[wallet.state],
                                                      tokenAddress, tokenState)),
                      !.state = Len(wallet.objects) + 1]
    IN  /\ i \in DOMAIN wallet.fetches
        /\ wallet' \in
              IF fetch.op = "fetchBalancesAndAllowances"
              THEN IF Len(rest) > 0
                   THEN {[written EXCEPT !.fetches[i].tokenAddresses = rest]}
                   ELSE IF wallet.phase = "unmounted" THEN {ended}
                   ELSE Rendered([ended EXCEPT !.state = fetch.object])
              ELSE IF wallet.phase = "unmounted"
                   THEN {[wallet EXCEPT !.fetches = others]}
                   ELSE Rendered(spread)
        /\ UNCHANGED ExchangeVars

\* The component as constructed, next to a freshly deployed exchange.
WalletInit ==
    /\ transactions = {}
    /\ book = {OrderA, OrderB}
    /\ filled = [h \in {getOrderHash(o) : o \in book} |-> 0]
    /\ cancelled = [h \in {getOrderHash(o) : o \in book} |-> 0]
    /\ makerEpoch = [a \in Users |-> 0]
    /\ now = 1
    /\ calls = 0
    /\ last = NoCall
    /\ verified = {}
    /\ cancelledUpTo = [a \in Users |-> {}]
    /\ rejected = {}
    /\ delivered = [h \in {getOrderHash(o) : o \in book} |->
                       [maker |-> 0, taker |-> 0]]
    /\ \E trackedTokens \in {tokens \in WalletTrackedTokens :
                                \A i \in DOMAIN tokens : tokens[i].ref = 1} :
          wallet = WalletConstructor(
                       [DefaultWalletProps EXCEPT
                           !.trackedTokens = trackedTokens])

WalletNext ==
    \/ ComponentWillMount
    \/ \E nextProps \in WalletProps : ComponentWillReceiveProps(nextProps)
    \/ \E tokenAddress \in {"zrx", "weth"} : RefetchTokenState(tokenAddress)
    \/ \E wrappedEtherDirection \in {"Deposit", "Receive"} :
          OpenWrappedEtherActionRow(wrappedEtherDirection)
    \/ CloseWrappedEtherActionRow
    \/ \E i \in 1..(1 + 2 * MaxWalletCalls) : ResolveFetch(i)
    \/ ComponentWillUnmount

WalletSpec == WalletInit /\ [][WalletNext]_vars

(***************************************************************************)
(* The rounding guard on its own: isRoundingError is public and pure, so   *)
(* any caller may apply it to any triple of the unsigned type.  The        *)
(* triples tried sit on both sides of the 0.1% threshold and of the width. *)
(***************************************************************************)
RoundingNumerators == {0, 1, 20, 27, 32768}
RoundingDenominators == {0, 1, 3, 333, 499, 1001, 1997}
RoundingTargets == {0, 1, 37, 50, 1000, 1999, 32768}

IsRoundingError(numerator, denominator, target) ==
    LET out == isRoundingError(numerator, denominator, target)
    IN  /\ Idle
        /\ last' = [op |-> "isRoundingError",
                    status |-> IF out.reverted THEN "revert" ELSE "ok",
                    numerator |-> numerator,
                    denominator |-> denominator,
                    target |-> target,
                    isError |-> out.isError]
        /\ UNCHANGED <<transactions, filled, cancelled, makerEpoch, now, book, wallet,
                       calls, verified, cancelledUpTo, rejected, delivered>>

RoundingNext ==
    \/ \E numerator \in RoundingNumerators,
          denominator \in RoundingDenominators, target \in RoundingTargets :
          IsRoundingError(numerator, denominator, target)
    \/ Return

RoundingSpec == Init /\ [][RoundingNext]_vars

(***************************************************************************)
(* The client library (ZeroEx): signature verification and order hashing   *)
(* off the chain.  Strings are sequences of characters; addresses and      *)
(* hashes are scaled to two hex digits; a signature made with the key of   *)
(* an address over a digest is (v, r, s) with r the key's address bytes    *)
(* and s the digest, which is all that recovery needs.                     *)
(***************************************************************************)
HexDigits == {"0", "1", "a", "e", "f"}
AddressDigits == 2

\* assert.isHexString: the value is "0x" followed by hex digits.
isHexString(value) ==
    /\ Len(value) >= 2
    /\ value[1] = "0"
    /\ value[2] = "x"
    /\ \A i \in 3..Len(value) : value[i] \in HexDigits

\* assert.isETHAddressHex: a hex string of the length of an address.
isETHAddressHex(value) == isHexString(value) /\ Len(value) = 2 + AddressDigits

\* ecSignatureSchema: v is 27 or 28, r and s are hex strings.
doesConformToECSignatureSchema(signature) ==
    /\ signature.v \in {27, 28}
    /\ isHexString(signature.r)
    /\ isHexString(signature.s)

\* ethUtil.toBuffer of a hex string, ethUtil.bufferToHex of a buffer.
toBuffer(hex) == SubSeq(hex, 3, Len(hex))
bufferToHex(buff) == <<"0", "x">> \o buff

\* ethUtil.hashPersonalMessage: the digest of the prefixed message, kept
\* apart from the message itself by a mark.
hashPersonalMessage(dataBuff) == dataBuff \o <<"e">>

\* The address of another key: it differs from the given one in its first
\* digit, differs for different n in 1..3, and is never the null address.
RECURSIVE OtherKeyAddress(_, _)
OtherKeyAddress(address, n) ==
    LET digit == Head(address)
        nextDigit == CASE digit = "0" -> "1"
                       [] digit = "1" -> "a"
                       [] digit = "a" -> "e"
                       [] digit = "e" -> "f"
                       [] OTHER -> "1"
    IN  IF n = 0 \/ Len(address) = 0 THEN address
        ELSE OtherKeyAddress(<<nextDigit>> \o Tail(address), n - 1)

\* ethUtil.ecrecover followed by pubToAddress: throws on a signature that
\* is no curve point (r = 0).  Otherwise it yields the address of the one
\* key for which (v, r, s) signs the digest: the key named by r when s is
\* the digest and v its recovery value (27 for the keys of the model), and
\* the address of another key for another digest or the other v.
ecrecover(msgHashBuff, v, r, s) ==
    IF v \notin {27, 28} \/ (\A i \in 1..Len(r) : r[i] = "0")
    THEN [threw |-> TRUE, address |-> <<>>]
    ELSE [threw |-> FALSE,
          address |->
              OtherKeyAddress(r, (IF s = msgHashBuff THEN 0 ELSE 2)
                                 + (IF v = 27 THEN 0 ELSE 1))]

\* ZeroEx.isValidSignature.  The three assertions stand before the try
\* block: a failing one raises out of the function.
ZeroExIsValidSignature(dataHex, signature, signerAddressHex) ==
    IF ~isHexString(dataHex) THEN [raised |-> TRUE, value |-> FALSE]
    ELSE IF ~doesConformToECSignatureSchema(signature)
    THEN [raised |-> TRUE, value |-> FALSE]
    ELSE IF ~isETHAddressHex(signerAddressHex)
    THEN [raised |-> TRUE, value |-> FALSE]
    ELSE LET dataBuff == toBuffer(dataHex)
             msgHashBuff == hashPersonalMessage(dataBuff)
             recovered == ecrecover(msgHashBuff, signature.v,
                                    toBuffer(signature.r),
                                    toBuffer(signature.s))
             retrievedAddress == bufferToHex(recovered.address)
         IN  IF recovered.threw THEN [raised |-> FALSE, value |-> FALSE]
             ELSE [raised |-> FALSE,
                   value |-> retrievedAddress = signerAddressHex]

\* The signature the node makes with the key of signerAddressHex over the
\* digest it is handed.
ECSign(signerAddressHex, digestBuff) ==
    [v |-> 27, r |-> signerAddressHex, s |-> bufferToHex(digestBuff)]

AddressHexM == <<"0", "x", "a", "1">>
AddressHexT == <<"0", "x", "f", "0">>
HashHex1 == <<"0", "x", "1", "1">>
HashHex2 == <<"0", "x", "f", "f">>

\* Inputs of isValidSignature: well-formed ones and one malformed value of
\* each kind.
DataHexes == {HashHex1, HashHex2, <<"0", "x", "z", "1">>}
NullAddressHex == <<"0", "x", "0", "0">>
SignerAddressHexes ==
    {AddressHexM, AddressHexT, NullAddressHex, <<"0", "x", "a">>, <<"a", "1">>}
ECSignatures ==
    {ECSign(AddressHexM, hashPersonalMessage(toBuffer(HashHex1))),
     ECSign(AddressHexT, hashPersonalMessage(toBuffer(HashHex1))),
     ECSign(AddressHexM, toBuffer(HashHex1)),
     [ECSign(AddressHexM, hashPersonalMessage(toBuffer(HashHex1)))
         EXCEPT !.v = 28],
     [v |-> 27, r |-> <<"0", "x", "0", "0">>, s |-> HashHex1],
     [v |-> 99, r |-> AddressHexM, s |-> HashHex1],
     [v |-> 27, r |-> <<"z">>, s |-> HashHex1]}

IsValidSignature(dataHex, signature, signerAddressHex) ==
    LET out == ZeroExIsValidSignature(dataHex, signature, signerAddressHex)
    IN  /\ Idle
        /\ last' = [op |-> "isValidSignature",
                    status |-> IF out.raised THEN "raised" ELSE "ok",
                    dataHex |-> dataHex,
                    signature |-> signature,
                    signerAddressHex |-> signerAddressHex,
                    value |-> out.value]
        /\ UNCHANGED <<transactions, filled, cancelled, makerEpoch, now, book, wallet,
                       calls, verified, cancelledUpTo, rejected, delivered>>

\* utils.bigNumberToBN: the decimal digits of the BigNumber, read back as
\* a BN.
RECURSIVE toDecimalDigits(_)
toDecimalDigits(value) ==
    IF value < 10 THEN <<value>>
    ELSE Append(toDecimalDigits(value \div 10), value % 10)

RECURSIVE fromDecimalDigits(_)
fromDecimalDigits(digits) ==
    IF Len(digits) = 0 THEN 0
    ELSE 10 * fromDecimalDigits(SubSeq(digits, 1, Len(digits) - 1))
         + digits[Len(digits)]

bigNumberToBN(value) == fromDecimalDigits(toDecimalDigits(value))

\* The fields orderSchema requires of an order.
OrderSchemaFields ==
    {"maker", "taker", "makerTokenAddress", "takerTokenAddress",
     "feeRecipient", "makerTokenAmount", "takerTokenAmount", "makerFee",
     "takerFee", "expirationUnixTimestampSec", "salt"}

\* assert.doesConformToSchema('order', ...): the required fields are
\* there; a field the schema does not name is let through.
doesConformToOrderSchema(order) == OrderSchemaFields \subseteq DOMAIN order

\* ethABI.soliditySHA3 of the typed values: injective on the packed,
\* fixed-width serialization, hence on the tuple of values.
soliditySHA3(types, values) == <<"soliditySHA3", types, values>>

\* Exchange.json: the address of the deployment on each network the
\* artifact names.
ExchangeArtifactsNetworks ==
    [networkId \in {1, 42} |-> IF networkId = 1 THEN EXCHANGE ELSE "exchange2"]

\* What web3Wrapper.getNetworkIdIfExistsAsync resolves to: no id, the id of
\* a network with a deployment, or of one without.
NetworkIdsIfExist == {<<>>, <<1>>, <<42>>, <<999>>}

\* ZeroEx.getExchangeAddressAsync after its await: throws
\* CONTRACT_NOT_DEPLOYED_ON_NETWORK without a network id or without an
\* entry of the artifact for it.
getExchangeAddressAsync(networkIdIfExists) ==
    IF Len(networkIdIfExists) = 0
    THEN [raised |-> TRUE, exchangeAddress |-> ""]
    ELSE IF networkIdIfExists[1] \notin DOMAIN ExchangeArtifactsNetworks
    THEN [raised |-> TRUE, exchangeAddress |-> ""]
    ELSE [raised |-> FALSE,
          exchangeAddress |-> ExchangeArtifactsNetworks[networkIdIfExists[1]]]

\* ZeroEx.getOrderHashHexAsync after its await, given the address
\* getExchangeAddressAsync resolved to and the order as it is by then.
getOrderHashHexAsync(order, exchangeContractAddr) ==
    IF ~doesConformToOrderSchema(order)
    THEN [raised |-> TRUE, hashHex |-> <<>>]
    ELSE LET orderParts ==
                 <<[value |-> exchangeContractAddr, type |-> "address"],
                   [value |-> order.maker, type |-> "address"],
                   [value |-> order.taker, type |-> "address"],
                   [value |-> order.makerTokenAddress, type |-> "address"],
                   [value |-> order.takerTokenAddress, type |-> "address"],
                   [value |-> order.feeRecipient, type |-> "address"],
                   [value |-> bigNumberToBN(order.makerTokenAmount), type |-> "uint256"],
                   [value |-> bigNumberToBN(order.takerTokenAmount), type |-> "uint256"],
                   [value |-> bigNumberToBN(order.makerFee), type |-> "uint256"],
                   [value |-> bigNumberToBN(order.takerFee), type |-> "uint256"],
                   [value |-> bigNumberToBN(order.expirationUnixTimestampSec), type |-> "uint256"],
                   [value |-> bigNumberToBN(order.salt), type |-> "uint256"]>>
             types == [i \in DOMAIN orderParts |-> orderParts[i].type]
             values == [i \in DOMAIN orderParts |-> orderParts[i].value]
         IN  [raised |-> FALSE, hashHex |-> soliditySHA3(types, values)]

\* Orders handed to the library: one order, for each field a copy that
\* differs from it in that field alone, and a copy without its salt;
\* senderAddress is the field of the exchange's order that the library's
\* list does not name.
SdkOrder ==
    [maker |-> "M", taker |-> ZERO, makerTokenAddress |-> "tokenA",
     takerTokenAddress |-> "tokenB", feeRecipient |-> "R",
     makerTokenAmount |-> 200, takerTokenAmount |-> 100, makerFee |-> 10,
     takerFee |-> 4, expirationUnixTimestampSec |-> 2, salt |-> 1,
     senderAddress |-> ZERO]

SdkOrders ==
    {SdkOrder,
     [SdkOrder EXCEPT !.senderAddress = "R"],
     [SdkOrder EXCEPT !.maker = "T"],
     [SdkOrder EXCEPT !.taker = "T"],
     [SdkOrder EXCEPT !.makerTokenAddress = "tokenB"],
     [SdkOrder EXCEPT !.takerTokenAddress = "tokenA"],
     [SdkOrder EXCEPT !.feeRecipient = ZERO],
     [SdkOrder EXCEPT !.makerTokenAmount = 201],
     [SdkOrder EXCEPT !.takerTokenAmount = 101],
     [SdkOrder EXCEPT !.makerFee = 11],
     [SdkOrder EXCEPT !.takerFee = 5],
     [SdkOrder EXCEPT !.expirationUnixTimestampSec = 3],
     [SdkOrder EXCEPT !.salt = 0],
     [field \in DOMAIN SdkOrder \ {"salt"} |-> SdkOrder[field]]}

\* A call of getOrderHashHexAsync up to its await: the call waits for the
\* node's network id and holds the caller's order object.  The outcome of
\* the call before it stays in sight, so that two hashes can be compared.
GetOrderHashHexAsync(order) ==
    LET previous ==
            IF last.op = "getOrderHashHexAsync"
            THEN <<[order |-> last.order,
                    exchangeContractAddr |-> last.exchangeContractAddr,
                    status |-> last.status,
                    hashHex |-> last.hashHex]>>
            ELSE <<>>
    IN  /\ \/ Idle
           \/ /\ last.op = "getOrderHashHexAsync"
              /\ last.status # "pending"
              /\ last.before = <<>>
        /\ last' = [op |-> "getOrderHashHexAsync", status |-> "pending",
                    passed |-> order, order |-> order,
                    awaiting |-> "getNetworkIdIfExistsAsync",
                    exchangeAddressPromise |-> <<>>,
                    exchangeContractAddr |-> "", hashHex |-> <<>>,
                    error |-> "", before |-> previous]
        /\ UNCHANGED <<transactions, filled, cancelled, makerEpoch, now, book, wallet,
                       calls, verified, cancelledUpTo, rejected, delivered>>

\* The caller changes its order object while the call waits, for the node
\* or for the promise of getExchangeAddressAsync that has settled.
OrderChangedByCaller(order) ==
    /\ last.op = "getOrderHashHexAsync"
    /\ last.status = "pending"
    /\ order # last.order
    /\ last' = [last EXCEPT !.order = order]
    /\ UNCHANGED <<transactions, filled, cancelled, makerEpoch, now, book, wallet,
                   calls, verified, cancelledUpTo, rejected, delivered>>

\* The node answers and getExchangeAddressAsync runs from its await to its
\* end (lines 220-227): its promise settles, with the address or with the
\* error thrown, and getOrderHashHexAsync waits for its own turn.
GetExchangeAddressAsyncResumed(networkIdIfExists) ==
    /\ last.op = "getOrderHashHexAsync"
    /\ last.status = "pending"
    /\ last.awaiting = "getNetworkIdIfExistsAsync"
    /\ last' = [last EXCEPT
                   !.awaiting = "getExchangeAddressAsync",
                   !.exchangeAddressPromise =
                       <<getExchangeAddressAsync(networkIdIfExists)>>]
    /\ UNCHANGED <<transactions, filled, cancelled, makerEpoch, now, book, wallet,
                   calls, verified, cancelledUpTo, rejected, delivered>>

\* getOrderHashHexAsync resumes from its await in a later turn and runs to
\* its end: a failure of getExchangeAddressAsync rejects it, and so does
\* the schema assertion on the order as it is now.
GetOrderHashHexAsyncResumed ==
    /\ last.op = "getOrderHashHexAsync"
    /\ last.status = "pending"
    /\ last.awaiting = "getExchangeAddressAsync"
    /\ LET resolved == last.exchangeAddressPromise[1]
           out == getOrderHashHexAsync(last.order, resolved.exchangeAddress)
       IN  last' =
              IF resolved.raised
              THEN [last EXCEPT !.status = "raised", !.awaiting = "",
                                !.error = "CONTRACT_NOT_DEPLOYED_ON_NETWORK"]
              ELSE IF out.raised
              THEN [last EXCEPT !.status = "raised", !.awaiting = "",
                                !.exchangeContractAddr = resolved.exchangeAddress,
                                !.error = "Expected order to conform to schema"]
              ELSE [last EXCEPT !.status = "ok", !.awaiting = "",
                                !.exchangeContractAddr = resolved.exchangeAddress,
                                !.hashHex = out.hashHex]
    /\ UNCHANGED <<transactions, filled, cancelled, makerEpoch, now, book, wallet,
                   calls, verified, cancelledUpTo, rejected, delivered>>

SdkNext ==
    \/ \E dataHex \in DataHexes, signature \in ECSignatures,
          signerAddressHex \in SignerAddressHexes :
          IsValidSignature(dataHex, signature, signerAddressHex)
    \/ \E order \in SdkOrders : GetOrderHashHexAsync(order)
    \/ \E order \in SdkOrders : OrderChangedByCaller(order)
    \/ \E networkIdIfExists \in NetworkIdsIfExist :
          GetExchangeAddressAsyncResumed(networkIdIfExists)
    \/ GetOrderHashHexAsyncResumed
    \/ Return

SdkSpec == Init /\ [][SdkNext]_vars

(***************************************************************************)
(* Vocabulary of the properties: the last invocation seen as a fill, and   *)
(* the conditions of the specification stated on the chain before it.      *)
(***************************************************************************)
LastTransactionHash == getTransactionHash(last.salt, last.data)

\* The last invocation is a meta-transaction that passed the gate (not a
\* replay, signed by its signer) and carries a fillOrder call.
LastIsRelayedFill ==
    /\ last.op = "executeTransaction"
    /\ LastTransactionHash \notin last.pre.transactions
    /\ last.signature = Sign(last.signer, LastTransactionHash)
    /\ last.data.length >= 32
    /\ last.data.selector = "fillOrder"

\* The last invocation ran the fill logic, directly or relayed.
LastIsFill == last.op = "fillOrder" \/ LastIsRelayedFill

LastOrder == IF last.op = "fillOrder" THEN last.order ELSE last.data.order
LastAmount ==
    IF last.op = "fillOrder" THEN last.amount ELSE last.data.takerTokenFillAmount
LastSignature ==
    IF last.op = "fillOrder" THEN last.signature ELSE last.data.signature
LastTaker == IF last.op = "fillOrder" THEN last.taker ELSE last.signer
LastHash == getOrderHash(LastOrder)

PreUnavailable == last.pre.filled[LastHash] + last.pre.cancelled[LastHash]
PreFirstReference ==
    last.pre.filled[LastHash] = 0 /\ last.pre.cancelled[LastHash] = 0
PreRemaining == LastOrder.takerTokenAmount - PreUnavailable
PreExpired == last.pre.now >= LastOrder.expirationTimeSeconds
PreBulkCancelled ==
    LastOrder.salt < last.pre.makerEpoch[LastOrder.makerAddress]
MakerSigned == LastSignature = Sign(LastOrder.makerAddress, LastHash)

\* The hard checks of a fill, steps 2 to 4 of fillOrder.
HardChecksPass ==
    /\ PreFirstReference =>
          /\ LastOrder.makerTokenAmount > 0
          /\ LastOrder.takerTokenAmount > 0
          /\ MakerSigned
    /\ LastOrder.senderAddress \in {ZERO, last.sender}
    /\ LastOrder.takerAddress \in {ZERO, LastTaker}
    /\ LastAmount > 0

Min(a, b) == IF a < b THEN a ELSE b

\* The invocation left filled, cancelled and makerEpoch as they were.
LedgerUnchanged ==
    /\ filled = last.pre.filled
    /\ cancelled = last.pre.cancelled
    /\ makerEpoch = last.pre.makerEpoch

\* The invocation changed nothing at all.
NothingChanged == LedgerUnchanged /\ transactions = last.pre.transactions

\* The only change to the executed set is the mark of a relayed call.
OnlyOwnMark ==
    transactions = IF last.op = "executeTransaction" /\ last.status = "ok"
                   THEN last.pre.transactions \cup {LastTransactionHash}
                   ELSE last.pre.transactions

\* The rounding test of the specification on natural numbers: the remainder
\* of target * numerator by denominator is not zero and is more than 1000
\* millionths of the product.
RoundingFlagged(numerator, denominator, target) ==
    LET remainder == (target * numerator) % denominator
    IN  /\ remainder # 0
        /\ (remainder * 1000000) \div (numerator * target) > 1000

(***************************************************************************)
(* C1: for every order, filled + cancelled never exceeds the order's       *)
(* takerTokenAmount, in every reachable state.                             *)
(***************************************************************************)
C1_UnavailableWithinOrder ==
    \A o \in book :
        filled[getOrderHash(o)] + cancelled[getOrderHash(o)]
            <= o.takerTokenAmount

\* An order used up by a cancel and a fill that was capped to what remained.
C1_Witness ==
    /\ last.op = "fillOrder"
    /\ last.status = "ok"
    /\ last.amount > last.ret
    /\ last.ret > 0
    /\ cancelled[LastHash] > 0
    /\ filled[LastHash] + cancelled[LastHash] = last.order.takerTokenAmount

(***************************************************************************)
(* C2: a meta-transaction whose hash (salt, payload) was executed before   *)
(* is rejected, and the rejected call settles nothing and changes neither  *)
(* filled, cancelled, makerEpoch nor transactions.                         *)
(***************************************************************************)
C2_ReplayRejected ==
    (last.op = "executeTransaction"
        /\ LastTransactionHash \in last.pre.transactions)
    => /\ last.status = "revert"
       /\ last.settled = <<>>
       /\ last.events = <<>>
       /\ NothingChanged

\* The second submission of a fill that the first submission executed.
C2_Witness ==
    /\ last.op = "executeTransaction"
    /\ LastTransactionHash \in last.pre.transactions
    /\ last.signature = Sign(last.signer, LastTransactionHash)
    /\ last.data.selector = "fillOrder"
    /\ filled[getOrderHash(last.data.order)] > 0
    /\ last.status = "revert"

(***************************************************************************)
(* C3: a non-zero ledger entry proves that a committed invocation checked  *)
(* the maker's signature over the order hash.                              *)
(***************************************************************************)
C3_EntryProvesVerification ==
    \A h \in DOMAIN filled :
        filled[h] + cancelled[h] > 0 => h \in verified

(***************************************************************************)
(* C4: a fill of an order on its first reference reverts, with no state    *)
(* change and no settlement, when makerTokenAmount = 0, or                 *)
(* takerTokenAmount = 0, or the signature is not the maker's over the      *)
(* order hash.                                                             *)
(***************************************************************************)
C4_FirstReferenceValidated ==
    (LastIsFill /\ PreFirstReference
        /\ (\/ LastOrder.makerTokenAmount = 0
            \/ LastOrder.takerTokenAmount = 0
            \/ ~MakerSigned))
    => /\ last.status = "revert"
       /\ last.settled = <<>>
       /\ last.events = <<>>
       /\ NothingChanged

\* A fill that only its signature stops: unexpired order, allowed caller.
C4_Witness ==
    /\ last.op = "fillOrder"
    /\ PreFirstReference
    /\ ~MakerSigned
    /\ LastOrder.makerTokenAmount > 0
    /\ LastOrder.takerTokenAmount > 0
    /\ LastOrder.senderAddress = ZERO
    /\ LastOrder.takerAddress = ZERO
    /\ last.amount > 0
    /\ ~PreExpired
    /\ last.status = "revert"

\* The last fill, made again on the same chain with the maker's signature.
WithMakerSignature ==
    fillOrderInternal(last.pre, last.sender, LastTaker, LastOrder, LastAmount,
                      Sign(LastOrder.makerAddress, LastHash),
                      last.transfers # "failed")

(***************************************************************************)
(* C5: once an order has a ledger entry, a fill carrying any signature     *)
(* ends exactly as the same fill carrying the maker's signature: same      *)
(* status, return value, events, settlement and new filled amounts.        *)
(***************************************************************************)
C5_SignatureOnlyOnFirstReference ==
    (LastIsFill /\ ~PreFirstReference)
    => /\ last.status = WithMakerSignature.status
       /\ last.ret = WithMakerSignature.ret
       /\ last.events = WithMakerSignature.events
       /\ last.settled = WithMakerSignature.settled
       /\ filled = WithMakerSignature.filled

\* A fill with a signature that is not the maker's takes more of an order
\* that already has an entry.
C5_Witness ==
    /\ LastIsFill
    /\ ~PreFirstReference
    /\ ~MakerSigned
    /\ last.status = "ok"
    /\ last.ret > 0
    /\ filled[LastHash] = last.pre.filled[LastHash] + last.ret

\* The rounding guard on the capped amount, and the four soft outcomes.
PreRoundingError ==
    isRoundingError(Min(LastAmount, PreRemaining), LastOrder.takerTokenAmount,
                    LastOrder.makerTokenAmount).isError

NoSoftOutcome ==
    /\ ~PreExpired
    /\ PreRemaining > 0
    /\ ~PreRoundingError
    /\ ~PreBulkCancelled

(***************************************************************************)
(* C6: a fill that passes the hard checks, meets no soft outcome and whose *)
(* transfers complete returns min(takerTokenFillAmount, remaining) and     *)
(* adds exactly that to filled[h]; a request above the remaining amount    *)
(* is capped and leaves the order fully filled.                            *)
(***************************************************************************)
C6_FillsMinOfRequestAndRemaining ==
    (LastIsFill /\ HardChecksPass /\ NoSoftOutcome /\ last.transfers # "failed")
    => /\ last.status = "ok"
       /\ last.ret = Min(LastAmount, PreRemaining)
       /\ filled[LastHash] = last.pre.filled[LastHash] + last.ret
       /\ LastAmount > PreRemaining =>
             filled[LastHash] + cancelled[LastHash]
                 = LastOrder.takerTokenAmount

\* The fresh 200/100 order, asked for 200: returns 100.
C6_Witness ==
    /\ last.op = "fillOrder"
    /\ last.order = OrderA
    /\ PreFirstReference
    /\ last.amount = 200
    /\ last.status = "ok"
    /\ last.ret = 100
    /\ filled[LastHash] = 100

\* The first end-to-end example: 50 of the fresh 200/100 order.
IsExampleFillOf50 ==
    /\ last.op = "fillOrder"
    /\ last.order = OrderA
    /\ PreFirstReference
    /\ last.amount = 50
    /\ HardChecksPass
    /\ NoSoftOutcome
    /\ last.transfers # "failed"

(***************************************************************************)
(* C7: a successful fill of f invokes the settlement exactly once, with    *)
(* the order, the taker and f, and the maker side settled is               *)
(* floor(f * makerTokenAmount / takerTokenAmount); on the fresh 200/100    *)
(* order a fill of 50 returns 50, settles 100 on the maker side and        *)
(* leaves filled[h] = 50.                                                  *)
(***************************************************************************)
C7_SettlesProportionalAmountOnce ==
    /\ (LastIsFill /\ last.status = "ok" /\ last.ret > 0)
       => /\ Len(last.settled) = 1
          /\ last.settled[1].orderHash = LastHash
          /\ last.settled[1].takerAddress = LastTaker
          /\ last.settled[1].takerTokenFilledAmount = last.ret
          /\ last.settled[1].makerTokenFilledAmount
                = (last.ret * LastOrder.makerTokenAmount)
                      \div LastOrder.takerTokenAmount
    /\ IsExampleFillOf50
       => /\ last.status = "ok"
          /\ last.ret = 50
          /\ Len(last.settled) = 1
          /\ last.settled[1].makerTokenFilledAmount = 100
          /\ filled[LastHash] = 50

C7_Witness ==
    /\ IsExampleFillOf50
    /\ last.ret = 50
    /\ last.settled[1].makerTokenFilledAmount = 100
    /\ filled[LastHash] = 50

\* Nothing of the order remained before the call.
PreUsedUp == PreUnavailable > 0 /\ PreUnavailable = LastOrder.takerTokenAmount

(***************************************************************************)
(* C8: a fill of an order that is already used up (filled + cancelled =    *)
(* takerTokenAmount) changes neither filled, cancelled nor makerEpoch and  *)
(* settles nothing; a direct fillOrder leaves the executed set unchanged   *)
(* too.  When the caller, the taker and the amount pass the hard checks it *)
(* completes and returns 0.                                                *)
(***************************************************************************)
C8_FillOfUsedUpOrderIsNoOp ==
    (LastIsFill /\ PreUsedUp)
    => /\ last.ret = 0
       /\ last.settled = <<>>
       /\ LedgerUnchanged
       /\ OnlyOwnMark
       /\ HardChecksPass => last.status = "ok"

\* fillOrder again, by an allowed caller, after the order was fully filled.
C8_Witness ==
    /\ last.op = "fillOrder"
    /\ last.pre.filled[LastHash] = LastOrder.takerTokenAmount
    /\ LastOrder.takerTokenAmount > 0
    /\ last.amount > 0
    /\ last.status = "ok"
    /\ last.ret = 0

(***************************************************************************)
(* C9: a fill that passes the hard checks at a time now >=                 *)
(* expirationTimeSeconds (now = expirationTimeSeconds included) completes, *)
(* returns 0, emits ORDER_EXPIRED, settles nothing and leaves the ledger   *)
(* unchanged.                                                              *)
(***************************************************************************)
C9_ExpiredFillIsSoftNoOp ==
    (LastIsFill /\ HardChecksPass /\ PreExpired)
    => /\ last.status = "ok"
       /\ last.ret = 0
       /\ last.events = <<ExchangeError("ORDER_EXPIRED", LastHash)>>
       /\ last.settled = <<>>
       /\ LedgerUnchanged
       /\ OnlyOwnMark

\* A fill in the very second the order expires, with units still to fill.
C9_Witness ==
    /\ last.op = "fillOrder"
    /\ HardChecksPass
    /\ last.pre.now = LastOrder.expirationTimeSeconds
    /\ PreRemaining > 0
    /\ ~PreBulkCancelled
    /\ last.status = "ok"
    /\ last.ret = 0

\* The maker committed cancelOrdersUpTo(s) for some s >= the order's salt.
BulkCancelledBefore ==
    \E s \in cancelledUpTo[LastOrder.makerAddress] : LastOrder.salt <= s

(***************************************************************************)
(* C10: once cancelOrdersUpTo(s) of maker M has committed, every later     *)
(* fill (direct or relayed) of an order of M with salt <= s returns 0 or   *)
(* reverts, does not increase filled[h] and settles nothing.               *)
(***************************************************************************)
C10_BulkCancelIsPermanent ==
    (LastIsFill /\ BulkCancelledBefore)
    => /\ last.ret = 0
       /\ last.settled = <<>>
       /\ filled = last.pre.filled

\* A fill that only the bulk cancellation stops, direct or relayed.
C10_Witness ==
    /\ LastIsFill
    /\ BulkCancelledBefore
    /\ HardChecksPass
    /\ ~PreExpired
    /\ PreRemaining > 0
    /\ ~PreRoundingError
    /\ last.status = "ok"
    /\ last.ret = 0

(***************************************************************************)
(* C11: cancelOrdersUpTo(salt) commits only when salt + 1 is above the     *)
(* caller's epoch and then stores exactly salt + 1 for the caller alone;   *)
(* in every other case it reverts and makerEpoch is as before.  A salt the *)
(* caller already committed is refused, and so is the largest uint256      *)
(* (no wrapped epoch is ever stored).                                      *)
(***************************************************************************)
C11_EpochBumpIsStrict ==
    last.op = "cancelOrdersUpTo"
    => /\ last.status = "ok"
          => /\ last.salt + 1 > last.pre.makerEpoch[last.sender]
             /\ makerEpoch =
                    [last.pre.makerEpoch EXCEPT ![last.sender] = last.salt + 1]
       /\ ~(last.salt + 1 > last.pre.makerEpoch[last.sender])
          => last.status = "revert"
       /\ last.status = "revert" => makerEpoch = last.pre.makerEpoch
       /\ last.again => last.status = "revert"
       /\ last.salt = MAX_UINT => last.status = "revert"

\* The same salt a second time, refused.
C11_Witness ==
    /\ last.op = "cancelOrdersUpTo"
    /\ last.again
    /\ last.pre.makerEpoch[last.sender] = last.salt + 1
    /\ last.status = "revert"
    /\ makerEpoch = last.pre.makerEpoch

(***************************************************************************)
(* C12: in every step, no maker's epoch decreases, and an epoch that       *)
(* changes does so in a cancelOrdersUpTo invocation made by that maker     *)
(* (fills, cancels, relayed transactions and the passing of time leave     *)
(* every epoch alone).                                                     *)
(***************************************************************************)
C12_EpochOnlyRaisedByOwner ==
    [][\A m \in Users :
          /\ makerEpoch'[m] >= makerEpoch[m]
          /\ makerEpoch'[m] # makerEpoch[m]
             => /\ last'.op = "cancelOrdersUpTo"
                /\ last'.sender = m
                /\ last'.status = "ok"]_vars

\* T raises its epoch after M raised its own: M's epoch stays where M put it.
C12_Witness ==
    /\ last.op = "cancelOrdersUpTo"
    /\ last.sender = "T"
    /\ last.status = "ok"
    /\ makerEpoch["T"] > last.pre.makerEpoch["T"]
    /\ last.pre.makerEpoch["M"] > 0
    /\ makerEpoch["M"] = last.pre.makerEpoch["M"]

(***************************************************************************)
(* C13: in every step, filled[h] and cancelled[h] of every order hash h    *)
(* are at least what they were before the step: no invocation lowers a     *)
(* counter or resets an entry to zero.                                     *)
(***************************************************************************)
C13_LedgerCountersOnlyGrow ==
    [][\A h \in DOMAIN filled :
          /\ filled'[h] >= filled[h]
          /\ cancelled'[h] >= cancelled[h]]_vars

\* A second fill and a cancellation have both added to an order's entry.
C13_Witness ==
    /\ LastIsFill
    /\ last.status = "ok"
    /\ last.pre.filled[LastHash] > 0
    /\ last.pre.cancelled[LastHash] > 0
    /\ filled[LastHash] > last.pre.filled[LastHash]
    /\ cancelled[LastHash] = last.pre.cancelled[LastHash]

\* The order lets the invoking party send it, and lets the taker take it.
SenderAuthorized ==
    LastOrder.senderAddress = ZERO \/ LastOrder.senderAddress = last.sender
TakerAuthorized ==
    LastOrder.takerAddress = ZERO \/ LastOrder.takerAddress = LastTaker

(***************************************************************************)
(* C14: filled[h] grows only in a fill whose invoking party is the order's *)
(* senderAddress (or the order names none) and whose taker is the order's  *)
(* takerAddress (or the order names none); the taker is the caller of      *)
(* fillOrder and the signer of executeTransaction.  A fill that violates   *)
(* either condition reverts and changes nothing.                           *)
(***************************************************************************)
C14_FillAuthorization ==
    /\ (~Idle /\ filled # last.pre.filled)
       => /\ LastIsFill
          /\ SenderAuthorized
          /\ TakerAuthorized
    /\ (LastIsFill /\ ~(SenderAuthorized /\ TakerAuthorized))
       => /\ last.status = "revert"
          /\ last.events = <<>>
          /\ last.settled = <<>>
          /\ NothingChanged

\* An order restricted to a sender and a taker, filled through its sender
\* for its taker.
C14_Witness ==
    /\ LastIsRelayedFill
    /\ LastOrder.senderAddress = last.sender
    /\ LastOrder.takerAddress = last.signer
    /\ last.sender # last.signer
    /\ last.status = "ok"
    /\ filled[LastHash] > last.pre.filled[LastHash]

(***************************************************************************)
(* C15: cancelled[h] grows only in a cancelOrder invocation made by the    *)
(* order's maker; a cancelOrder by anyone else reverts and leaves filled,  *)
(* cancelled and makerEpoch as they were.                                  *)
(***************************************************************************)
C15_OnlyMakerCancels ==
    /\ (~Idle /\ cancelled # last.pre.cancelled)
       => /\ last.op = "cancelOrder"
          /\ last.sender = last.order.makerAddress
          /\ \A h \in DOMAIN cancelled :
                cancelled[h] # last.pre.cancelled[h]
                => h = getOrderHash(last.order)
    /\ (last.op = "cancelOrder" /\ last.sender # last.order.makerAddress)
       => /\ last.status = "revert"
          /\ last.events = <<>>
          /\ NothingChanged

\* Someone other than the maker asks to cancel units of a live, open order.
C15_Witness ==
    /\ last.op = "cancelOrder"
    /\ last.sender # last.order.makerAddress
    /\ last.order.senderAddress = ZERO
    /\ last.amount > 0
    /\ last.pre.now < last.order.expirationTimeSeconds
    /\ last.order.takerTokenAmount
          > last.pre.filled[getOrderHash(last.order)]
            + last.pre.cancelled[getOrderHash(last.order)]
    /\ last.order.makerTokenAmount > 0
    /\ last.status = "revert"
    /\ cancelled = last.pre.cancelled

\* The last invocation is a cancelOrder made by the order's maker.
LastIsCancelByMaker ==
    last.op = "cancelOrder" /\ last.sender = last.order.makerAddress
CancelHash == getOrderHash(last.order)
CancelPreRemaining ==
    last.order.takerTokenAmount
        - (last.pre.filled[CancelHash] + last.pre.cancelled[CancelHash])
CancelPreExpired == last.pre.now >= last.order.expirationTimeSeconds
\* The outcome is a return of 0 with one soft event and no change.
CancelIsSoftNoOp ==
    /\ last.status = "ok"
    /\ last.ret = 0
    /\ Len(last.events) = 1
    /\ last.events[1].name = "ExchangeError"
    /\ NothingChanged
\* The outcome is a cancellation of min(amount asked, remaining).
CancelTakesMin ==
    /\ last.status = "ok"
    /\ last.ret = Min(last.amount, CancelPreRemaining)
    /\ cancelled = [last.pre.cancelled EXCEPT ![CancelHash] = @ + last.ret]
    /\ filled = last.pre.filled
\* The hard checks of a cancel: amounts of the order and of the request
\* above zero, the caller allowed as sender, and a proportional maker
\* amount that fits a uint256.
CancelHardChecksPass ==
    /\ last.order.makerTokenAmount > 0
    /\ last.order.takerTokenAmount > 0
    /\ last.amount > 0
    /\ last.order.senderAddress \in {ZERO, last.sender}
    /\ Min(last.amount, CancelPreRemaining)
          <= MAX_UINT \div last.order.makerTokenAmount

(***************************************************************************)
(* C16 as stated: every cancelOrder by the maker on an unexpired order     *)
(* with units remaining returns min(amount asked, takerTokenAmount -       *)
(* filled - cancelled), adds exactly that to cancelled[h] and leaves       *)
(* filled[h] alone; when nothing remains or the order is expired it        *)
(* returns 0 with a soft event and changes nothing.                        *)
(***************************************************************************)
C16_MakerCancelTakesMin ==
    LastIsCancelByMaker
    => IF CancelPreExpired \/ CancelPreRemaining = 0
       THEN CancelIsSoftNoOp
       ELSE CancelTakesMin

(***************************************************************************)
(* C16 amended: a cancelOrder by the maker that passes the hard checks     *)
(* (order amounts and amount asked above zero, senderAddress zero or the   *)
(* caller, no arithmetic overflow) behaves as stated: min(amount asked,    *)
(* remaining) is returned and added to cancelled[h] on an unexpired order  *)
(* with units remaining, and 0 is returned with an ORDER_EXPIRED or        *)
(* ORDER_FULLY_FILLED_OR_CANCELLED event and no change otherwise.  A       *)
(* cancelOrder by the maker that fails a hard check reverts with no change.*)
(***************************************************************************)
C16_CheckedMakerCancelTakesMin ==
    LastIsCancelByMaker
    => IF ~CancelHardChecksPass
       THEN last.status = "revert" /\ last.events = <<>> /\ NothingChanged
       ELSE IF CancelPreExpired
       THEN /\ CancelIsSoftNoOp
            /\ last.events = <<ExchangeError("ORDER_EXPIRED", CancelHash)>>
       ELSE IF CancelPreRemaining = 0
       THEN /\ CancelIsSoftNoOp
            /\ last.events =
                  <<ExchangeError("ORDER_FULLY_FILLED_OR_CANCELLED", CancelHash)>>
       ELSE /\ CancelTakesMin
            /\ last.ret > 0
            /\ Len(last.events) = 1
            /\ last.events[1].name = "Cancel"
            /\ last.events[1].takerTokenCancelledAmount = last.ret

\* The maker cancels more than what a partly filled, partly cancelled order
\* has left: the rest is cancelled.
C16_Witness ==
    /\ LastIsCancelByMaker
    /\ CancelHardChecksPass
    /\ ~CancelPreExpired
    /\ last.pre.filled[CancelHash] > 0
    /\ last.pre.cancelled[CancelHash] > 0
    /\ CancelPreRemaining > 0
    /\ last.amount > CancelPreRemaining
    /\ last.ret = CancelPreRemaining
    /\ cancelled[CancelHash] = last.pre.cancelled[CancelHash] + last.ret

\* The fill reached the settlement and a transfer could not complete.
SettlementFailedInLast == LastIsFill /\ last.transfers = "failed"

(***************************************************************************)
(* C17: a fill whose settlement fails is rolled back as a whole: filled    *)
(* (and the rest of the ledger) is as before the call, no Fill record is   *)
(* emitted and, for a relayed fill, the transaction hash is not marked.    *)
(* In every state where an invocation has raised filled[h], the settlement *)
(* of exactly that amount has completed.                                   *)
(***************************************************************************)
C17_FailedSettlementRollsBack ==
    /\ SettlementFailedInLast
       => /\ last.status = "revert"
          /\ last.events = <<>>
          /\ last.settled = <<>>
          /\ NothingChanged
    /\ (~Idle /\ filled # last.pre.filled)
       => /\ LastIsFill
          /\ last.transfers = "ok"
          /\ Len(last.settled) = 1
          /\ last.settled[1].orderHash = LastHash
          /\ last.settled[1].takerTokenFilledAmount
                = filled[LastHash] - last.pre.filled[LastHash]
          /\ Len(last.events) = 1
          /\ last.events[1].name = "Fill"

\* A relayed fill of a partly filled order, stopped by a failing transfer:
\* the transaction can be submitted again.
C17_Witness ==
    /\ LastIsRelayedFill
    /\ last.transfers = "failed"
    /\ last.pre.filled[LastHash] > 0
    /\ filled[LastHash] = last.pre.filled[LastHash]
    /\ LastTransactionHash \notin transactions
    /\ last.status = "revert"

\* The transaction carries the signer's signature over its hash.
LastSignedBySigner == last.signature = Sign(last.signer, LastTransactionHash)
\* The payload is a whole call that the exchange can carry out: another
\* method's calldata of a word or more, or a complete fillOrder call that
\* passes the hard checks of the fill and whose transfers do not fail.
LastPayloadCanRun ==
    IF last.data.selector = "fillOrder"
    THEN /\ last.data.length >= 549
         /\ HardChecksPass
         /\ last.transfers # "failed"
    ELSE last.data.length >= 32

(***************************************************************************)
(* C18: executeTransaction with a signature that is not the signer's over  *)
(* hash(salt, data) reverts and changes nothing: the hash is not marked    *)
(* and nothing is filled.  The same (salt, data), submitted later with the *)
(* signer's signature and not executed in between, passes the gate: it is  *)
(* marked executed and its payload is carried out.                         *)
(***************************************************************************)
C18_BadSignatureRejectedOnly ==
    /\ (last.op = "executeTransaction" /\ ~LastSignedBySigner)
       => /\ last.status = "revert"
          /\ last.events = <<>>
          /\ last.settled = <<>>
          /\ NothingChanged
    /\ (/\ last.op = "executeTransaction"
        /\ LastSignedBySigner
        /\ LastTransactionHash \in rejected
        /\ LastTransactionHash \notin last.pre.transactions
        /\ LastPayloadCanRun)
       => /\ last.status = "ok"
          /\ transactions = last.pre.transactions \cup {LastTransactionHash}
          /\ last.data.selector = "fillOrder"
             => /\ last.ret = Min(LastAmount, PreRemaining)
                   \/ (last.ret = 0 /\ Len(last.events) = 1
                          /\ last.events[1].name = "ExchangeError")
                /\ filled[LastHash] = last.pre.filled[LastHash] + last.ret

\* A relayed fill refused for its signature, submitted again with the
\* signer's signature: it fills.
C18_Witness ==
    /\ last.op = "executeTransaction"
    /\ LastSignedBySigner
    /\ LastTransactionHash \in rejected
    /\ last.data.selector = "fillOrder"
    /\ last.data.length >= 549
    /\ last.status = "ok"
    /\ last.ret > 0
    /\ LastTransactionHash \in transactions
    /\ filled[LastHash] = last.pre.filled[LastHash] + last.ret

(***************************************************************************)
(* C19: a meta-transaction signed by its signer, not executed before, with *)
(* a payload that is not a fillOrder call, of any length, is accepted: the *)
(* call completes, its hash is marked executed, and filled, cancelled and  *)
(* makerEpoch are unchanged with nothing settled.                          *)
(***************************************************************************)
C19_UnsupportedPayloadIsMarkedNoOp ==
    (/\ last.op = "executeTransaction"
     /\ LastSignedBySigner
     /\ LastTransactionHash \notin last.pre.transactions
     /\ last.data.selector # "fillOrder")
    => /\ last.status = "ok"
       /\ transactions = last.pre.transactions \cup {LastTransactionHash}
       /\ LedgerUnchanged
       /\ last.settled = <<>>
       /\ last.events = <<>>

(***************************************************************************)
(* C20: a fillOrder payload shorter than the declared structure (selector, *)
(* twelve order words, fill amount, signature offset, signature length and *)
(* signature bytes) is refused as malformed: the relayed call reverts and  *)
(* changes nothing, and no fill is made with an amount or a signature      *)
(* taken from outside the payload.                                         *)
(***************************************************************************)
C20_ShortFillPayloadIsRefused ==
    (/\ last.op = "executeTransaction"
     /\ LastSignedBySigner
     /\ LastTransactionHash \notin last.pre.transactions
     /\ last.data.selector = "fillOrder"
     /\ last.data.length >= 32
     /\ last.data.length < 549)
    => /\ last.status = "revert"
       /\ last.settled = <<>>
       /\ NothingChanged

(***************************************************************************)
(* C21: when the rounding guard flags the capped fill amount of a fill     *)
(* that passed the hard checks on an unexpired order with something left,  *)
(* fillOrder completes with a soft outcome: it returns 0, emits            *)
(* RoundingErrorTooLarge for the order, settles nothing and leaves the     *)
(* ledger unchanged.                                                       *)
(***************************************************************************)
PreRoundingFlagged ==
    RoundingFlagged(Min(LastAmount, PreRemaining), LastOrder.takerTokenAmount,
                    LastOrder.makerTokenAmount)

C21_RoundingErrorIsSoftNoOp ==
    (/\ LastIsFill
     /\ HardChecksPass
     /\ ~PreExpired
     /\ PreRemaining > 0
     /\ PreRoundingFlagged)
    => /\ last.status = "ok"
       /\ last.ret = 0
       /\ last.events = <<ExchangeError("ROUNDING_ERROR_TOO_LARGE", LastHash)>>
       /\ last.settled = <<>>
       /\ LedgerUnchanged
       /\ OnlyOwnMark

\* A fill of 1 of the 3-for-2 order was flagged and ended softly.
C21_Witness ==
    /\ LastIsFill
    /\ HardChecksPass
    /\ ~PreExpired
    /\ PreRemaining > 0
    /\ PreRoundingFlagged
    /\ LastOrder = OrderB
    /\ last.ret = 0
    /\ last.events = <<ExchangeError("ROUNDING_ERROR_TOO_LARGE", LastHash)>>

(***************************************************************************)
(* C22: for a triple with a non-zero denominator whose products            *)
(* target * numerator and remainder * 1000000 fit the unsigned type,       *)
(* isRoundingError returns false when (target * numerator) mod denominator *)
(* is 0, and otherwise returns true exactly when the integer quotient      *)
(* (remainder * 1000000) / (numerator * target) is greater than 1000.      *)
(***************************************************************************)
LastIsRounding == last.op = "isRoundingError"

\* target * numerator fits the unsigned type.
LastProductFits ==
    \/ last.numerator = 0
    \/ last.target <= MAX_UINT \div last.numerator

LastRemainder == (last.target * last.numerator) % last.denominator

\* The triple is in the range where neither product of the guard overflows.
LastInRange ==
    /\ last.denominator > 0
    /\ LastProductFits
    /\ LastRemainder <= MAX_UINT \div 1000000

C22_RoundingErrorValue ==
    (LastIsRounding /\ LastInRange)
    => /\ last.status = "ok"
       /\ last.isError = RoundingFlagged(last.numerator, last.denominator,
                                         last.target)

\* Both sides of the threshold: quotient 1000 is no error, 1001 is one.
C22_Witness ==
    /\ LastIsRounding
    /\ LastInRange
    /\ \/ /\ <<last.numerator, last.denominator, last.target>> = <<20, 333, 50>>
          /\ ~last.isError
       \/ /\ <<last.numerator, last.denominator, last.target>> = <<27, 499, 37>>
          /\ last.isError

(***************************************************************************)
(* C23: for numerator <= denominator, whenever the exact relative error    *)
(* exceeds 0.1% (remainder * 1000 > numerator * target), isRoundingError   *)
(* returns true.                                                           *)
(***************************************************************************)
C23_EveryExcessiveErrorIsFlagged ==
    (/\ LastIsRounding
     /\ LastInRange
     /\ last.numerator <= last.denominator
     /\ LastRemainder * 1000 > last.numerator * last.target)
    => (last.status = "ok" /\ last.isError)

(***************************************************************************)
(* C24: isRoundingError returns a boolean for every triple of the unsigned *)
(* type with a non-zero denominator, also when target * numerator or       *)
(* remainder * 1000000 exceeds the largest value of the type.              *)
(***************************************************************************)
C24_RoundingGuardNeverAborts ==
    (LastIsRounding /\ last.denominator > 0) => last.status = "ok"

(***************************************************************************)
(* C25: the library's isValidSignature returns true exactly when the       *)
(* signature recovers to the expected signer over the prefixed digest of   *)
(* the data, and for a malformed input (signature material, non-hex data,  *)
(* malformed address, failing recovery) it returns false and never raises. *)
(***************************************************************************)
\* The inputs are well formed and the signature is the signer's over the
\* prefixed digest.
LastSignatureIsSigners ==
    /\ isHexString(last.dataHex)
    /\ isETHAddressHex(last.signerAddressHex)
    /\ last.signature =
          ECSign(last.signerAddressHex,
                 hashPersonalMessage(toBuffer(last.dataHex)))

C25_IsValidSignatureNeverRaises ==
    last.op = "isValidSignature"
    => /\ last.status = "ok"
       /\ last.value = LastSignatureIsSigners

(***************************************************************************)
(* C26: the library's order hash is a function of the exchange address and *)
(* of every order field: the same input hashes the same, and two inputs    *)
(* that differ in one field, or in the exchange address, hash differently. *)
(***************************************************************************)
LastIsSecondHash ==
    /\ last.op = "getOrderHashHexAsync"
    /\ last.before # <<>>

C26_OrderHashCoversEveryField ==
    (/\ LastIsSecondHash
     /\ last.status = "ok"
     /\ last.before[1].status = "ok")
    => (last.hashHex = last.before[1].hashHex)
          = (/\ last.order = last.before[1].order
             /\ last.exchangeContractAddr
                   = last.before[1].exchangeContractAddr)

\* The same with the sender left aside: the hash tells apart any two
\* inputs that differ in the exchange address or in a field other than
\* senderAddress.
SameButSender(a, b) ==
    /\ DOMAIN a = DOMAIN b
    /\ \A field \in DOMAIN a \ {"senderAddress"} : a[field] = b[field]

OrderHashCoversNamedFields ==
    (/\ LastIsSecondHash
     /\ last.status = "ok"
     /\ last.before[1].status = "ok")
    => (last.hashHex = last.before[1].hashHex)
          = (/\ SameButSender(last.order, last.before[1].order)
             /\ last.exchangeContractAddr
                   = last.before[1].exchangeContractAddr)

(***************************************************************************)
(* C27: a fill runs its checks in a fixed order and the first that applies *)
(* decides: a violated hard check aborts whatever the state of the order;  *)
(* otherwise an expired order reports ORDER_EXPIRED; otherwise an order    *)
(* with nothing left reports ORDER_FULLY_FILLED_OR_CANCELLED; otherwise a  *)
(* flagged rounding reports ROUNDING_ERROR_TOO_LARGE, also for a           *)
(* bulk-cancelled order; otherwise a bulk-cancelled order reports          *)
(* ORDER_FULLY_FILLED_OR_CANCELLED; otherwise no soft outcome is reported. *)
(***************************************************************************)
\* What the order of the checks makes of the call: "abort", the soft
\* outcome reported, or "fill" when every check lets the call through.
ExpectedDecision ==
    IF ~HardChecksPass THEN "abort"
    ELSE IF PreExpired THEN "ORDER_EXPIRED"
    ELSE IF PreRemaining = 0 THEN "ORDER_FULLY_FILLED_OR_CANCELLED"
    ELSE IF PreRoundingFlagged THEN "ROUNDING_ERROR_TOO_LARGE"
    ELSE IF PreBulkCancelled THEN "ORDER_FULLY_FILLED_OR_CANCELLED"
    ELSE "fill"

LastReportsSoft(errorId) ==
    /\ last.status = "ok"
    /\ last.ret = 0
    /\ last.events = <<ExchangeError(errorId, LastHash)>>

C27_FirstApplicableCheckDecides ==
    LastIsFill
    => CASE ExpectedDecision = "abort" -> last.status = "revert"
         [] ExpectedDecision = "fill" ->
               \/ last.status = "revert"
               \/ /\ last.status = "ok"
                  /\ last.ret > 0
                  /\ Len(last.events) = 1
                  /\ last.events[1].name = "Fill"
         [] OTHER -> LastReportsSoft(ExpectedDecision)

\* A fill of 1 of the bulk-cancelled 3-for-2 order reported the rounding
\* error, not the cancellation.
C27_Witness ==
    /\ LastIsFill
    /\ HardChecksPass
    /\ ~PreExpired
    /\ PreRemaining > 0
    /\ PreRoundingFlagged
    /\ PreBulkCancelled
    /\ LastReportsSoft("ROUNDING_ERROR_TOO_LARGE")

(***************************************************************************)
(* C28: the hash of a meta-transaction carrying a fill is marked exactly   *)
(* when the invocation completes.  After a hard failure nothing is marked, *)
(* and the same (salt, signer, data, signature) submitted again passes the *)
(* gate again and can succeed (a hard failure of the fill, not the         *)
(* rejection of a replay).  After a completed invocation, a soft       *)
(* outcome included, the hash stays marked and the same meta-transaction   *)
(* submitted again is rejected with no change.                             *)
(***************************************************************************)
LastIsResubmission ==
    last.op = "executeTransaction" /\ "previous" \in DOMAIN last

\* The last invocation is a meta-transaction with the signer's signature
\* carrying a fill.
LastCarriesFill ==
    /\ last.op = "executeTransaction"
    /\ last.signature = Sign(last.signer, LastTransactionHash)
    /\ last.data.length >= 32
    /\ last.data.selector = "fillOrder"

C28_MarkedExactlyWhenCompleted ==
    /\ LastIsRelayedFill
       => /\ (LastTransactionHash \in transactions) = (last.status = "ok")
          /\ last.status = "revert" => NothingChanged
    /\ (LastIsResubmission /\ LastCarriesFill)
       => /\ (last.previous.status = "revert" /\ ~last.previous.replay)
             => LastTransactionHash \notin last.pre.transactions
          /\ last.previous.status = "ok"
             => /\ LastTransactionHash \in last.pre.transactions
                /\ last.status = "revert"
                /\ NothingChanged
    /\ (LastCarriesFill /\ LastTransactionHash \in last.pre.transactions)
       => (last.status = "revert" /\ NothingChanged)

\* The relayed fill of an order reserved to one relayer was aborted when
\* another relayer submitted it, was submitted again unchanged by the
\* order's relayer, and filled the order.
C28_Witness ==
    /\ LastIsResubmission
    /\ LastCarriesFill
    /\ last.previous.status = "revert"
    /\ ~last.previous.replay
    /\ last.previous.transfers = "none"
    /\ LastOrder.senderAddress = last.sender
    /\ last.status = "ok"
    /\ last.ret > 0
    /\ LastTransactionHash \in transactions

\* The relayed fill ended softly, was submitted again and was rejected.
C28_SoftOutcomeStaysMarked ==
    /\ LastIsResubmission
    /\ LastCarriesFill
    /\ last.previous.status = "ok"
    /\ last.previous.ret = 0
    /\ last.status = "revert"

(***************************************************************************)
(* C29: an invocation changes at most its own entry: fillOrder on h only   *)
(* filled[h], cancelOrder on h only cancelled[h], cancelOrdersUpTo only    *)
(* makerEpoch of the caller, executeTransaction only the mark of its own   *)
(* hash and filled[h] of the order it carries.  Every other entry is as    *)
(* before, and what a fill or a cancel of another order would do is the    *)
(* same before and after the invocation.                                   *)
(***************************************************************************)
\* f and g agree everywhere except possibly at the keys in own.
SameOutside(f, g, own) ==
    /\ DOMAIN f = DOMAIN g
    /\ \A key \in DOMAIN f : key \notin own => f[key] = g[key]

\* The order hash the last invocation works on, if it works on one.
LastOwnHashes ==
    IF last.op \in {"fillOrder", "cancelOrder"}
    THEN {getOrderHash(last.order)}
    ELSE IF last.op = "executeTransaction" /\ last.data.selector = "fillOrder"
    THEN {getOrderHash(last.data.order)}
    ELSE {}

FrameOfLast ==
    /\ SameOutside(filled, last.pre.filled,
                   IF last.op \in {"fillOrder", "executeTransaction"}
                   THEN LastOwnHashes ELSE {})
    /\ SameOutside(cancelled, last.pre.cancelled,
                   IF last.op = "cancelOrder" THEN LastOwnHashes ELSE {})
    /\ SameOutside(makerEpoch, last.pre.makerEpoch,
                   IF last.op = "cancelOrdersUpTo" THEN {last.sender} ELSE {})
    /\ last.pre.transactions \subseteq transactions
    /\ transactions \ last.pre.transactions
          \subseteq (IF last.op = "executeTransaction"
                     THEN {LastTransactionHash} ELSE {})

\* The outcome of a fill (by T, of any amount) and of a cancel (by the
\* maker) of an order other than the one just worked on, computed on the
\* chain before and on the chain after the last invocation.
OthersUnaffected ==
    \A order \in book, amount \in Amounts :
       getOrderHash(order) \notin LastOwnHashes
       => /\ LET before == fillOrderInternal(last.pre, "T", "T", order, amount,
                                             MakerSignature(order), TRUE)
                 after == fillOrderInternal(Chain, "T", "T", order, amount,
                                            MakerSignature(order), TRUE)
             IN  /\ before.status = after.status
                 /\ before.ret = after.ret
                 /\ before.events = after.events
                 /\ before.filled[getOrderHash(order)]
                       = after.filled[getOrderHash(order)]
          /\ LET before == cancelOrderInternal(last.pre, order.makerAddress,
                                               order.makerAddress, order, amount)
                 after == cancelOrderInternal(Chain, order.makerAddress,
                                              order.makerAddress, order, amount)
             IN  /\ before.status = after.status
                 /\ before.ret = after.ret
                 /\ before.events = after.events
                 /\ before.cancelled[getOrderHash(order)]
                       = after.cancelled[getOrderHash(order)]

C29_InvocationsTouchOwnEntryOnly ==
    last.op \in {"fillOrder", "cancelOrder", "cancelOrdersUpTo",
                 "executeTransaction"}
    => /\ FrameOfLast
       /\ last.op # "cancelOrdersUpTo" /\ LastOwnHashes # {}
          => OthersUnaffected

\* A fill changed its order's entry while the entry of the other order,
\* filled before, stayed as it was.
C29_Witness ==
    /\ last.op = "fillOrder"
    /\ last.status = "ok"
    /\ filled[LastHash] > last.pre.filled[LastHash]
    /\ \E h \in DOMAIN filled :
          /\ h # LastHash
          /\ filled[h] > 0
          /\ filled[h] = last.pre.filled[h]
    /\ OthersUnaffected

(***************************************************************************)
(* C30: the ledger is the exact account of what the invocations returned.  *)
(* Every entry starts at 0; each step adds to filled[h] the value returned *)
(* by the fill on h committed in that step, if there is one, and to        *)
(* cancelled[h] the value returned by the cancelOrder on h committed in    *)
(* that step, and nothing else; hence each entry is the sum of the values  *)
(* returned on it.  An invocation emits a Fill (resp. Cancel) record       *)
(* exactly when it returns more than 0, and the record's taker-side amount *)
(* is the value returned.                                                  *)
(***************************************************************************)
\* This step is an invocation that committed.
CommittedNow == calls' = calls + 1 /\ last'.status = "ok"

\* The value this step's committed fill returned on h (0 without one).
FillReturnedOn(h) ==
    IF /\ CommittedNow
       /\ \/ last'.op = "fillOrder" /\ getOrderHash(last'.order) = h
          \/ /\ last'.op = "executeTransaction"
             /\ last'.data.selector = "fillOrder"
             /\ getOrderHash(last'.data.order) = h
    THEN last'.ret
    ELSE 0

\* The value this step's committed cancelOrder returned on h.
CancelReturnedOn(h) ==
    IF /\ CommittedNow
       /\ last'.op = "cancelOrder"
       /\ getOrderHash(last'.order) = h
    THEN last'.ret
    ELSE 0

\* The records of one kind among the events of an outcome.
RecordsNamed(events, name) ==
    {i \in DOMAIN events : events[i].name = name}

\* This step's invocation emitted its record exactly when it returned
\* more than 0, with the returned value as the taker-side amount.
RecordsMatchReturn ==
    calls' = calls + 1
    => LET fills == RecordsNamed(last'.events, "Fill")
           cancels == RecordsNamed(last'.events, "Cancel")
       IN  /\ (fills # {}) = (/\ last'.op \in {"fillOrder", "executeTransaction"}
                              /\ last'.status = "ok"
                              /\ last'.ret > 0)
           /\ \A i \in fills :
                 last'.events[i].takerTokenFilledAmount = last'.ret
           /\ (cancels # {}) = (/\ last'.op = "cancelOrder"
                                /\ last'.status = "ok"
                                /\ last'.ret > 0)
           /\ \A i \in cancels :
                 last'.events[i].takerTokenCancelledAmount = last'.ret

C30_LedgerIsSumOfReturns ==
    /\ \A h \in DOMAIN filled : filled[h] = 0 /\ cancelled[h] = 0
    /\ [][/\ \A h \in DOMAIN filled :
               /\ filled'[h] = filled[h] + FillReturnedOn(h)
               /\ cancelled'[h] = cancelled[h] + CancelReturnedOn(h)
          /\ RecordsMatchReturn]_vars

\* A second fill of an order partly filled and partly cancelled: the entry
\* is the earlier sum plus the value returned, which the Fill record
\* carries.
C30_Witness ==
    /\ LastIsFill
    /\ last.status = "ok"
    /\ last.ret > 0
    /\ last.pre.filled[LastHash] > 0
    /\ cancelled[LastHash] > 0
    /\ filled[LastHash] = last.pre.filled[LastHash] + last.ret
    /\ last.events[1].name = "Fill"
    /\ last.events[1].takerTokenFilledAmount = last.ret

(***************************************************************************)
(* C31: filled[h] is written before the settlement is called, so a fill or *)
(* a cancel of the same order nested in the settlement computes what is    *)
(* left from the increased filled[h]: it takes no more than what the outer *)
(* fill left, both amounts are in the ledger afterwards, and filled[h] +   *)
(* cancelled[h] stays within the order's takerTokenAmount.                 *)
(***************************************************************************)
LastIsReentered == last.op = "fillOrderReentered" /\ last.entered

ReenteredHash == getOrderHash(last.order)

\* What the order had left before the outer fill.
ReenteredPreRemaining ==
    last.order.takerTokenAmount
        - (last.pre.filled[ReenteredHash] + last.pre.cancelled[ReenteredHash])

NestedFillRet ==
    IF last.nestedStatus = "ok" /\ last.nested.op = "fillOrder"
    THEN last.nestedRet ELSE 0

NestedCancelRet ==
    IF last.nestedStatus = "ok" /\ last.nested.op = "cancelOrder"
    THEN last.nestedRet ELSE 0

C31_ReentrantCallSeesIncreasedFill ==
    /\ \A o \in book :
          filled[getOrderHash(o)] + cancelled[getOrderHash(o)]
              <= o.takerTokenAmount
    /\ (LastIsReentered /\ last.status = "ok")
       => /\ last.nestedRet <= ReenteredPreRemaining - last.ret
          /\ filled[ReenteredHash]
                = last.pre.filled[ReenteredHash] + last.ret + NestedFillRet
          /\ cancelled[ReenteredHash]
                = last.pre.cancelled[ReenteredHash] + NestedCancelRet
    /\ (LastIsReentered /\ last.status = "revert")
       => (filled = last.pre.filled /\ cancelled = last.pre.cancelled)

\* The outer fill took part of the order and the nested call, asking for
\* more than was left, got exactly the rest.
C31_Witness ==
    /\ LastIsReentered
    /\ last.status = "ok"
    /\ last.ret > 0
    /\ last.nestedStatus = "ok"
    /\ last.nestedRet > 0
    /\ last.nested.amount > last.nestedRet
    /\ last.nestedRet = ReenteredPreRemaining - last.ret
    /\ filled[ReenteredHash] + cancelled[ReenteredHash]
          = last.order.takerTokenAmount

(***************************************************************************)
(* C32: a meta-transaction of signer A does not get in the way of one of   *)
(* signer B: when (salt, data) had not been executed, A's meta-transaction *)
(* ran, and B then submits the same salt and data under B's own valid      *)
(* signature, B's meta-transaction is not rejected as a replay.            *)
(***************************************************************************)
\* The last invocation is B's submission, validly signed, of a salt and
\* data that nobody had executed before A submitted them.
LastIsOtherSignersFirst ==
    /\ last.op = "executeTransaction"
    /\ "previous" \in DOMAIN last
    /\ "signer" \in DOMAIN last.previous
    /\ last.previous.signer # last.signer
    /\ ~last.previous.replay
    /\ last.signature = Sign(last.signer, LastTransactionHash)

\* The invocation was stopped at the replay check.
LastRejectedAsReplay ==
    /\ LastTransactionHash \in last.pre.transactions
    /\ last.status = "revert"

C32_SignersDoNotInterfere ==
    LastIsOtherSignersFirst => ~LastRejectedAsReplay

(***************************************************************************)
(* C33.  Over the committed partial fills of one order, the maker-side     *)
(* amounts settled, each the whole part of                                 *)
(* f * makerTokenAmount / takerTokenAmount, sum to at most the order's     *)
(* makerTokenAmount, and the taker-side amounts f sum to at most           *)
(* takerTokenAmount - cancelled[h].                                        *)
(***************************************************************************)
WholePart(f, order) == (f * order.makerTokenAmount) \div order.takerTokenAmount

LastSettledWholeParts ==
    (last.op = "fillOrder" /\ last.status = "ok")
        => \A i \in 1..Len(last.settled) :
              /\ last.settled[i].takerTokenFilledAmount = last.ret
              /\ last.settled[i].makerTokenFilledAmount
                    = WholePart(last.ret, last.order)

C33_MakerNeverOverDelivers ==
    /\ LastSettledWholeParts
    /\ \A o \in book :
          /\ delivered[getOrderHash(o)].maker <= o.makerTokenAmount
          /\ delivered[getOrderHash(o)].taker + cancelled[getOrderHash(o)]
                <= o.takerTokenAmount

\* OrderD filled whole by partial fills: each was paid a truncated amount,
\* and the maker has delivered less than 1001.
C33_Witness ==
    /\ OrderD \in book
    /\ delivered[getOrderHash(OrderD)].taker = OrderD.takerTokenAmount
    /\ delivered[getOrderHash(OrderD)].maker < OrderD.makerTokenAmount
    /\ last.op = "fillOrder" /\ last.status = "ok"
    /\ last.ret < OrderD.takerTokenAmount

(***************************************************************************)
(* C34.  After userAddress (or networkId) has changed, the refetch started *)
(* by componentWillReceiveProps asks the blockchain about the new          *)
(* userAddress: once no fetch is pending, the displayed state of every     *)
(* tracked token is the current userAddress's, not the previous one's.     *)
(***************************************************************************)
NoFetchPending == wallet.phase = "mounted" /\ Len(wallet.fetches) = 0

OwnStateOf(userAddress, tokenAddress) ==
    LET held == getTokenBalanceAndAllowanceAsync(
                    IF userAddress = "" THEN UNDEFINED ELSE userAddress,
                    tokenAddress)
    IN  [balance |-> held.balance, allowance |-> held.allowance,
         isLoaded |-> TRUE]

C34_DisplayedStateIsCurrentUsers ==
    (NoFetchPending /\ wallet.changed)
        => \A t \in Range(TokenAddresses(wallet.props.trackedTokens)) :
              wallet.displayed[t] = OwnStateOf(wallet.props.userAddress, t)

====
